---- MODULE Spec2Model ----
(***************************************************************************)
(* State-machine model of the knowledge_partner orchestration core:       *)
(* the artifact store (se_agent/mcp/artifact_registry.py), the workspace  *)
(* record (se_agent/tools/workspace_store.py), the session manager        *)
(* (se_agent/core/session_manager.py) and the dispatcher                  *)
(* (se_agent/core/agent.py).                                              *)
(*                                                                         *)
(* Handlers are written as operators over a state record `s` so that a    *)
(* handler that calls another one (handle_user_message -> _session_tick   *)
(* -> session_chat -> run -> Tool.run) is one atomic action, as in the    *)
(* single-threaded program.  An operator returns the state it leaves      *)
(* behind together with what it returned or raised.                       *)
(***************************************************************************)
EXTENDS Integers, Sequences, FiniteSets, TLC

\* ------------------------------------------------------------------ bounds
\* number of uuid4 artifact ids the registry hands out
MaxArtifacts == 3
\* the same, in the store-only specification
MaxStoreArtifacts == 3
\* length of AgentCore.history
MaxHistory == 2
\* number of uuid4 session ids SessionManager.start hands out
MaxSessions == 2
\* seconds the clock advances (datetime.now, second resolution)
MaxClock == 1
\* entries of a session transcript
MaxTranscript == 3
\* pipelines attached to a package
MaxPipelines == 1
\* artifacts per package and prompts added by the host in SpecSession
MaxSessionArtifacts == 4
MaxSessionPrompts == 1
\* tools registered in the ToolRegistry
MaxTools == 3
\* steps of a scripted session's spec
MaxSteps == 2
\* artifact ids and history records in the specification of run() alone
MaxRunArtifacts == 4
MaxRunHistory == 3
\* history records in the specification of the replay
MaxReplayHistory == 2
\* artifacts a package holds besides its workspace record, and sessions
\* started, when the workspace memory is exercised
MaxMemoryArtifacts == 1
MaxMemorySessions == 1
\* history records when runs are scoped to one of two packages
MaxScopedHistory == 2

\* ------------------------------------------------------- values and inputs
\* Python None for strings, and for ids
None == "None"
NoId == 0
\* an artifact without metadata["name"] (Artifact.name is falsy)
NoName == ""

PkgNames == {"A"}
\* what callers store under a type: a prompt is a non-empty string, a table is
\* some other serializable value
ContentOfType(type_) == IF type_ = "prompt" THEN "text" ELSE "data"
\* the inputs of the store-only specification
StoreTypes == {"prompt", "table"}
StoreNames == {"N", "N (2)"}

WORKSPACE_ARTIFACT_NAME == "_workspace_store"
WORKSPACE_ARTIFACT_TYPE == "workspace"

\* ---------------------------------------------------------------- state
VARIABLES
    packages,           \* ArtifactRegistry.packages: name -> ArtifactPackage
    active_package,     \* ArtifactRegistry.active_package
    contract_mode,      \* AgentCore.contract_mode
    session_type,       \* AgentCore.session_type
    history,            \* AgentCore.history
    last_announced,     \* AgentCore._last_announced: package -> artifact id
    session_autoswitch, \* AgentCore.config["session_autoswitch"]
    uuid,               \* next fresh id: [art |-> n, sid |-> n]
    now,                \* the wall clock, in seconds
    tools,              \* ToolRegistry.tools: the metadata, in insertion order
    script_session,     \* the scripted Session a host steps through
    last                \* the call just made and what it returned (observer)

vars == <<packages, active_package, contract_mode, session_type, history,
          last_announced, session_autoswitch, uuid, now, tools, script_session,
          last>>

\* no scripted session has been constructed
NoSession == [sid |-> NoId]

\* The mutable program state a handler works on.
Cur ==
    [packages |-> packages, active_package |-> active_package,
     contract_mode |-> contract_mode, session_type |-> session_type,
     history |-> history, last_announced |-> last_announced, uuid |-> uuid]

\* ------------------------------------------------------- artifact store
\* Content of an artifact.  A workspace record keeps its maps in it; for
\* every other artifact only `kind` is used.
PlainContent(kind) ==
    [kind |-> kind, body |-> None, sessions |-> {}, pending_session_sid |-> NoId,
     pending_contract_switch |-> {}, memory |-> <<>>, injections_once |-> <<>>]

\* workspace_store._load_ws, the fresh store it creates
FreshWorkspaceContent == PlainContent("ws")

ArtifactsOf(s, pkg) == s.packages[pkg].artifacts

ExistingNames(arts) == {arts[i].name : i \in DOMAIN arts}

Suffixed(desired, n) == desired \o " (" \o ToString(n) \o ")"

\* A mutant of unique_name: the counter starts at 3 instead of 2.
unique_name_from3(arts, desired) ==
    IF desired = NoName \/ desired \notin ExistingNames(arts) THEN desired
    ELSE LET n == CHOOSE k \in 3..(Len(arts) + 3) :
                      /\ Suffixed(desired, k) \notin ExistingNames(arts)
                      /\ \A m \in 3..(k - 1) : Suffixed(desired, m) \in ExistingNames(arts)
         IN  Suffixed(desired, n)

\* ArtifactPackage._unique_name: the first free candidate "desired (n)", n = 2, 3, ...
unique_name(arts, desired) ==
    IF desired = NoName \/ desired \notin ExistingNames(arts) THEN desired
    ELSE LET n == CHOOSE k \in 2..(Len(arts) + 2) :
                      /\ Suffixed(desired, k) \notin ExistingNames(arts)
                      /\ \A m \in 2..(k - 1) : Suffixed(desired, m) \in ExistingNames(arts)
         IN  Suffixed(desired, n)

\* ArtifactPackage.add_artifact (through ArtifactRegistry.add_artifact): the
\* new artifact gets a fresh id, the timestamps, a unique name and its
\* announcement.  The id of the new artifact is s.uuid.art.
add_artifact(s, pkg, type_, content, name) ==
    LET arts == ArtifactsOf(s, pkg)
        a == [id |-> s.uuid.art, type |-> type_, content |-> content,
              name |-> IF name # NoName THEN unique_name(arts, name) ELSE name,
              created_at |-> now, remembered |-> FALSE, announce |-> "created"]
    IN  [s EXCEPT !.packages[pkg].artifacts = Append(arts, a),
                  !.uuid.art = s.uuid.art + 1]

\* Index of the artifact with this id in the package, 0 when absent
\* (ArtifactPackage.get_by_id).
IndexOfId(arts, id) ==
    IF \E i \in DOMAIN arts : arts[i].id = id
    THEN CHOOSE i \in DOMAIN arts : arts[i].id = id
    ELSE 0

\* sorted(..., key=_created_at, reverse=True)[0] over the artifacts of a type:
\* the sort is stable, so among the newest the first inserted comes first.
\* 0 when the package has no artifact of the type.
LatestIndexOfType(arts, type_) ==
    LET cands == {i \in DOMAIN arts : arts[i].type = type_}
    IN  IF cands = {} THEN 0
        ELSE CHOOSE i \in cands :
                 \A j \in cands :
                     \/ arts[j].created_at < arts[i].created_at
                     \/ (arts[j].created_at = arts[i].created_at /\ i <= j)

\* ArtifactRegistry.get_latest_by_type: the index of the artifact returned,
\* 0 for None (no such package, or no artifact of the type).
get_latest_by_type(s, package_name, type_) ==
    IF package_name \notin DOMAIN s.packages THEN 0
    ELSE LatestIndexOfType(ArtifactsOf(s, package_name), type_)

\* ArtifactRegistry.name_artifact: names the latest artifact of the type.
\* Returns the state and the index named (0: none).
name_artifact(s, pkg, artifact_type, name) ==
    LET arts == ArtifactsOf(s, pkg)
        i == LatestIndexOfType(arts, artifact_type)
    IN  IF i = 0 THEN [st |-> s, idx |-> 0]
        ELSE [st |-> [s EXCEPT !.packages[pkg].artifacts[i].name = name,
                               !.packages[pkg].artifacts[i].announce = "named"],
              idx |-> i]

\* ---------------------------------------------------- workspace record
\* workspace_store._load_ws, the lookup: the first artifact of type
\* "workspace" named "_workspace_store"; 0 when the package has none.
WsIndex(arts) ==
    LET found == {i \in DOMAIN arts : /\ arts[i].type = WORKSPACE_ARTIFACT_TYPE
                                      /\ arts[i].name = WORKSPACE_ARTIFACT_NAME}
    IN  IF found = {} THEN 0 ELSE CHOOSE i \in found : \A j \in found : i <= j

\* workspace_store._load_ws: finds the workspace record of an existing
\* package or creates a fresh one.  Returns the state and the record's index.
load_ws(s, pkg) ==
    IF WsIndex(ArtifactsOf(s, pkg)) # 0
    THEN [st |-> s, idx |-> WsIndex(ArtifactsOf(s, pkg))]
    ELSE LET s1 == add_artifact(s, pkg, WORKSPACE_ARTIFACT_TYPE, FreshWorkspaceContent,
                                WORKSPACE_ARTIFACT_NAME)
         IN  [st |-> s1, idx |-> Len(ArtifactsOf(s1, pkg))]

\* The dict _load_ws returned: the content of the record at idx.
WsContent(s, pkg, idx) == ArtifactsOf(s, pkg)[idx].content

\* workspace_resolver.resolve_workspace_names, its effect on the store: it
\* loads the workspace record of the scope package (none: input returned as is).
resolve_workspace_names(s, pkg_name) ==
    IF pkg_name = None THEN s ELSE load_ws(s, pkg_name).st

\* ------------------------------------------------------ contract mode
\* A mutant of switch_contract: a switch to DEFAULT keeps the session type.
switch_contract_keeps_type(s, mode, stype) ==
    [s EXCEPT !.contract_mode = mode,
              !.session_type = IF mode = "DEFAULT" THEN s.session_type ELSE stype]

\* AgentCore._switch_contract
switch_contract(s, mode, stype) ==
    [s EXCEPT !.contract_mode = mode, !.session_type = stype]

\* ws["pending_contract_switch"] = value on the record load_ws returned
with_pending(w, pkg, value) ==
    [w.st EXCEPT !.packages[pkg].artifacts[w.idx].content.pending_contract_switch = value]

\* AgentCore._set_pending_switch: writes into the workspace of the ACTIVE
\* package; get_active_package() is None without one and `.name` raises.
set_pending_switch(s, mode, stype) ==
    IF s.active_package = None THEN [st |-> s, raised |-> TRUE]
    ELSE [st |-> with_pending(load_ws(s, s.active_package), s.active_package,
                              {[mode |-> mode, session_type |-> stype]}),
          raised |-> FALSE]

\* A mutant of clear_pending_switch: the record is left in place.
clear_pending_switch_keeps(s) ==
    IF s.active_package = None THEN [st |-> s, raised |-> TRUE]
    ELSE [st |-> load_ws(s, s.active_package).st, raised |-> FALSE]

\* AgentCore._clear_pending_switch
clear_pending_switch(s) ==
    IF s.active_package = None THEN [st |-> s, raised |-> TRUE]
    ELSE [st |-> with_pending(load_ws(s, s.active_package), s.active_package, {}),
          raised |-> FALSE]

\* ------------------------------------------------------------- results
\* The dict a Tool returns, by the keys the dispatcher reads.
Result ==
    [message |-> None, ui |-> None, response |-> None, switch_contract |-> None,
     session_type |-> None, artifact_id |-> NoId, artifact_ids |-> NoId,
     artifact_message |-> None]

Message(m) == [Result EXCEPT !.message = m]

\* res.get("session_type") or "interview"
SessTypeOf(res) == IF res.session_type # None THEN res.session_type ELSE "interview"

\* AgentCore._handle_tool_switch, mode 'ask' after _set_pending_switch: the
\* confirmation prompt is put under "ui" unless the result has one.
ask_confirmation(p, res) ==
    [st |-> p.st,
     res |-> IF p.raised \/ res.ui # None THEN res ELSE [res EXCEPT !.ui = "confirm_switch"],
     raised |-> p.raised]

\* A mutant of handle_tool_switch: 'on' and 'off' are swapped.
handle_tool_switch_swapped(s, res) ==
    IF res.switch_contract # "SESSION" THEN [st |-> s, res |-> res, raised |-> FALSE]
    ELSE IF session_autoswitch = "off"
    THEN [st |-> switch_contract(s, "SESSION", SessTypeOf(res)), res |-> res, raised |-> FALSE]
    ELSE IF session_autoswitch = "ask"
    THEN ask_confirmation(set_pending_switch(s, "SESSION", SessTypeOf(res)), res)
    ELSE [st |-> s, res |-> res, raised |-> FALSE]

\* A mutant of handle_tool_switch: the configuration is not consulted.
handle_tool_switch_eager(s, res) ==
    IF res.switch_contract # "SESSION" THEN [st |-> s, res |-> res, raised |-> FALSE]
    ELSE [st |-> switch_contract(s, "SESSION", SessTypeOf(res)), res |-> res, raised |-> FALSE]

\* AgentCore._handle_tool_switch
handle_tool_switch(s, res) ==
    IF res.switch_contract # "SESSION" THEN [st |-> s, res |-> res, raised |-> FALSE]
    ELSE IF session_autoswitch = "on"
    THEN [st |-> switch_contract(s, "SESSION", SessTypeOf(res)), res |-> res, raised |-> FALSE]
    ELSE IF session_autoswitch = "ask"
    THEN ask_confirmation(set_pending_switch(s, "SESSION", SessTypeOf(res)), res)
    ELSE [st |-> s, res |-> res, raised |-> FALSE]

\* ---------------------------------------------------------------- tools
\* The registered tools the model runs: the three a session allows, the
\* rename tool, a tool on TransformTool.run, and a tool that only satisfies
\* BaseTool.run (its result is whatever the tool author returns).
RegisteredTools ==
    {"create_artifact", "llm_chat", "execute_prompt_for_session", "name_artifact",
     "transform_tool", "custom_tool"}

\* The input dict of a tool call, by the keys the tools read.
Input ==
    [name |-> NoName, type |-> None, id |-> NoId, package |-> None,
     prompt_artifact_name |-> NoName]

\* What the world outside the store does during a tool call: whether the work
\* raises, the text the LLM replies, the contract switch a custom tool asks for.
Env == [raises |-> FALSE, reply |-> "text", switch |-> None, stype |-> None]

\* ArtifactPackage.get_by_name: the last inserted artifact of that name, 0 if none.
IndexOfName(arts, name) ==
    LET found == {i \in DOMAIN arts : arts[i].name = name}
    IN  IF found = {} THEN 0 ELSE CHOOSE i \in found : \A j \in found : j <= i

\* CreateArtifactTool.run
create_artifact_run(s, input, pkg_name) ==
    LET target_pkg == IF input.package # None THEN input.package ELSE pkg_name
    IN  IF input.name = NoName THEN [st |-> s, res |-> Message("name_required"), raised |-> FALSE]
        ELSE IF input.type = None THEN [st |-> s, res |-> Message("type_required"), raised |-> FALSE]
        ELSE IF target_pkg = None THEN [st |-> s, res |-> Message("no_package"), raised |-> FALSE]
        ELSE IF target_pkg \notin DOMAIN s.packages
        THEN [st |-> s, res |-> Message("create_failed"), raised |-> FALSE]
        ELSE [st |-> add_artifact(s, target_pkg, input.type,
                                  PlainContent(ContentOfType(input.type)), input.name),
              res |-> [Message("created") EXCEPT !.ui = "created", !.artifact_id = s.uuid.art],
              raised |-> FALSE]

\* LLMChatTool.run: the completion call may raise; the turn is stored as a
\* "conversation" artifact of the target package.
llm_chat_run(s, input, pkg_name, env) ==
    LET target_package == IF input.package # None THEN input.package ELSE pkg_name
    IN  IF env.raises THEN [st |-> s, res |-> Result, raised |-> TRUE]
        ELSE IF target_package # None /\ target_package \in DOMAIN s.packages
        THEN [st |-> add_artifact(s, target_package, "conversation", PlainContent("data"), NoName),
              res |-> [Message("chat_completed") EXCEPT !.response = env.reply,
                                                        !.artifact_ids = s.uuid.art],
              raised |-> FALSE]
        ELSE [st |-> s, res |-> [Message("chat_completed") EXCEPT !.response = env.reply],
              raised |-> FALSE]

\* A session as SessionManager._to_dict stores it; of its spec, the shim
\* ExecutePromptForSession.run builds, the artifact type is kept.
Session(sid, prompt_name, llm_mode) ==
    [sid |-> sid, type |-> "freeform", step |-> 0, prompt_name |-> prompt_name,
     llm_mode |-> llm_mode, llm_style |-> "freeform", transcript |-> <<>>,
     artifact_type |-> "session_summary", attachments |-> <<>>]

\* sessions[sess.sid] = sess on the record load_ws returned
with_session(w, pkg, sess) ==
    [w.st EXCEPT !.packages[pkg].artifacts[w.idx].content.sessions =
                     {x \in WsContent(w.st, pkg, w.idx).sessions : x.sid # sess.sid}
                         \cup {sess}]

\* SessionManager.store: sessions[sess.sid] = sess in the package's workspace.
store(s, pkg, sess) == with_session(load_ws(s, pkg), pkg, sess)

\* ws["pending_session_sid"] = sid on the record load_ws returned
with_pending_sid(w, pkg, sid) ==
    [w.st EXCEPT !.packages[pkg].artifacts[w.idx].content.pending_session_sid = sid]

\* SessionManager.start (no attachments): a fresh sid, stored and made the
\* package's pending session.
start(s, pkg, prompt_name) ==
    with_pending_sid(
        load_ws(store([s EXCEPT !.uuid.sid = s.uuid.sid + 1], pkg,
                      Session(s.uuid.sid, prompt_name, FALSE)), pkg),
        pkg, s.uuid.sid)

\* ExecutePromptForSession.run
execute_prompt_for_session_run(s, input, package_name) ==
    IF package_name = None
    THEN [st |-> s, res |-> Result, raised |-> TRUE]
    ELSE LET arts == ArtifactsOf(s, package_name)
             i == IndexOfName(arts, input.prompt_artifact_name)
         IN  IF input.prompt_artifact_name = NoName
             THEN [st |-> s, res |-> Message("prompt_name_required"), raised |-> FALSE]
             ELSE IF i = 0
             THEN [st |-> s, res |-> Message("prompt_not_found"), raised |-> FALSE]
             ELSE IF arts[i].content.kind # "text"
             THEN [st |-> s, res |-> Message("prompt_no_text"), raised |-> FALSE]
             ELSE LET sid == s.uuid.sid
                      s1 == start(s, package_name, arts[i].name)
                      s2 == store(s1, package_name, Session(sid, arts[i].name, TRUE))
                  IN  [st |-> s2,
                       res |-> [Result EXCEPT !.switch_contract = "SESSION",
                                              !.session_type = "freeform",
                                              !.ui = "session_started"],
                       raised |-> FALSE]

\* NameArtifactTool.run: the name is assigned as given.
name_artifact_run(s, input, package_name) ==
    LET pkg_name == IF input.package # None THEN input.package ELSE package_name
    IN  IF input.name = NoName THEN [st |-> s, res |-> Message("missing_name"), raised |-> FALSE]
        ELSE IF pkg_name = None THEN [st |-> s, res |-> Message("no_package"), raised |-> FALSE]
        ELSE IF pkg_name \notin DOMAIN s.packages \/ ArtifactsOf(s, pkg_name) = <<>>
        THEN [st |-> s, res |-> Message("package_empty"), raised |-> FALSE]
        ELSE LET arts == ArtifactsOf(s, pkg_name)
                 i == IF input.id # NoId THEN IndexOfId(arts, input.id)
                      ELSE IF input.type # None THEN LatestIndexOfType(arts, input.type)
                      ELSE 0
             IN  IF i = 0
                 THEN [st |-> s, res |-> Message("target_not_found"), raised |-> FALSE]
                 ELSE [st |-> [s EXCEPT !.packages[pkg_name].artifacts[i].name = input.name,
                                        !.packages[pkg_name].artifacts[i].announce = "named"],
                       res |-> [Message("named") EXCEPT !.ui = "named",
                                                        !.artifact_id = arts[i].id],
                       raised |-> FALSE]

\* the artifact type of the modelled TransformTool subclass
TransformType == "update_log"

\* TransformTool.run: transform() may raise; the output is added and, when the
\* input carries a name, named through ArtifactRegistry.name_artifact.
transform_tool_run(s, input, package_name, env) ==
    IF env.raises THEN [st |-> s, res |-> Result, raised |-> TRUE]
    ELSE IF package_name = None
    THEN [st |-> s, res |-> Message("transformed"), raised |-> FALSE]
    ELSE LET s1 == add_artifact(s, package_name, TransformType, PlainContent("data"), NoName)
             s2 == IF input.name # NoName
                   THEN name_artifact(s1, package_name, TransformType, input.name).st
                   ELSE s1
         IN  [st |-> s2,
              res |-> [Message("transformed") EXCEPT !.artifact_id = s.uuid.art,
                                                     !.artifact_message = "tool"],
              raised |-> FALSE]

\* BaseTool.run of a tool of the host's own: it may raise, and its result may
\* ask for a contract switch.
custom_tool_run(s, env) ==
    IF env.raises THEN [st |-> s, res |-> Result, raised |-> TRUE]
    ELSE [st |-> s,
          res |-> [Message("done") EXCEPT !.switch_contract = env.switch,
                                          !.session_type = env.stype],
          raised |-> FALSE]

\* tool.run(resolved_input, artifacts=..., package_name=pkg_name)
tool_run(s, tool_name, input, pkg_name, env) ==
    CASE tool_name = "create_artifact" -> create_artifact_run(s, input, pkg_name)
      [] tool_name = "llm_chat" -> llm_chat_run(s, input, pkg_name, env)
      [] tool_name = "execute_prompt_for_session" ->
             execute_prompt_for_session_run(s, input,
                 IF pkg_name # None THEN pkg_name ELSE s.active_package)
      [] tool_name = "name_artifact" -> name_artifact_run(s, input, pkg_name)
      [] tool_name = "transform_tool" -> transform_tool_run(s, input, pkg_name, env)
      [] OTHER -> custom_tool_run(s, env)

\* ----------------------------------------------------------- dispatcher
\* A mutant of SessionAllowList: the rename tool is let through.
SessionAllowListWide ==
    {"execute_prompt_for_session", "llm_chat", "create_artifact", "name_artifact"}

\* AgentCore.run, the tools a guided session leaves enabled
SessionAllowList == {"execute_prompt_for_session", "llm_chat", "create_artifact"}

\* the outputs each tool's IO_SCHEMA flags remember = True
RememberTools == {"create_artifact", "llm_chat"}

\* A mutant of enforce_memory_policy: the newest artifact of the package is
\* marked, whatever the result reports.
enforce_memory_policy_newest(s, tool_name, res, package_name) ==
    IF package_name = None \/ tool_name \notin RememberTools
          \/ ArtifactsOf(s, package_name) = <<>>
    THEN s
    ELSE [s EXCEPT !.packages[package_name].artifacts[
                        Len(ArtifactsOf(s, package_name))].remembered = TRUE]

\* AgentCore._enforce_memory_policy: marks the artifact a remember output
\* names, when the result reports its id under "artifact_ids".
enforce_memory_policy(s, tool_name, res, package_name) ==
    IF package_name = None \/ tool_name \notin RememberTools \/ res.artifact_ids = NoId
    THEN s
    ELSE LET i == IndexOfId(ArtifactsOf(s, package_name), res.artifact_ids)
         IN  IF i = 0 THEN s
             ELSE [s EXCEPT !.packages[package_name].artifacts[i].remembered = TRUE]

\* max(arts, key=_created_at) over the non-conversation artifacts: the first
\* inserted among the newest; 0 when there is none.
LatestNonConversation(arts) ==
    LET cands == {i \in DOMAIN arts : arts[i].type # "conversation"}
    IN  IF cands = {} THEN 0
        ELSE CHOOSE i \in cands :
                 \A j \in cands :
                     \/ arts[j].created_at < arts[i].created_at
                     \/ (arts[j].created_at = arts[i].created_at /\ i <= j)

\* A mutant of latest_non_conversation_announce: _last_announced is not read.
latest_non_conversation_announce_again(s, pkg_name) ==
    IF pkg_name = None THEN [st |-> s, id |-> NoId]
    ELSE LET arts == ArtifactsOf(s, pkg_name)
             i == LatestNonConversation(arts)
         IN  IF i = 0
             THEN [st |-> s, id |-> NoId]
             ELSE [st |-> [s EXCEPT !.last_announced[pkg_name] = arts[i].id,
                                    !.packages[pkg_name].artifacts[i].announce = None],
                   id |-> arts[i].id]

\* AgentCore._latest_non_conversation_announce: the id announced (NoId: no
\* announcement) and the state with the announcement consumed.
latest_non_conversation_announce(s, pkg_name) ==
    IF pkg_name = None THEN [st |-> s, id |-> NoId]
    ELSE LET arts == ArtifactsOf(s, pkg_name)
             i == LatestNonConversation(arts)
         IN  IF i = 0 \/ s.last_announced[pkg_name] = arts[i].id
             THEN [st |-> s, id |-> NoId]
             ELSE [st |-> [s EXCEPT !.last_announced[pkg_name] = arts[i].id,
                                    !.packages[pkg_name].artifacts[i].announce = None],
                   id |-> arts[i].id]

\* What a handler hands back: the state, how it ended ("returned", "refused",
\* "raised"), the result, the Tool.run calls it made (tool and contract mode
\* at the call) and whether one of them raised.
Outcome(s, outcome, res, invoked, tool_raised) ==
    [st |-> s, outcome |-> outcome, res |-> res, invoked |-> invoked,
     tool_raised |-> tool_raised]

Refusal == Message("tools_disabled")

\* AgentCore.run, step 5: the snapshot artifact "run:<tool>"
run_capture(s, tool_name, pkg_name, capture_as_artifact) ==
    IF capture_as_artifact /\ pkg_name # None
    THEN add_artifact(s, pkg_name, "run:" \o tool_name, PlainContent("data"), NoName)
    ELSE s

\* AgentCore.run, step 7 and the contract switch: the announcement goes under
\* "artifact_message" unless the result has one, then _handle_tool_switch.
run_announce(ann, res) ==
    handle_tool_switch(ann.st, IF ann.id # NoId /\ res.artifact_message = None
                               THEN [res EXCEPT !.artifact_message = "announce"]
                               ELSE res)

\* AgentCore.run, step 4: the history record.  It holds the result dict
\* itself, so it shows the keys the later steps add.
run_record(sw, tool_name, pkg_name, input_data, invoked) ==
    Outcome([sw.st EXCEPT !.history =
                 Append(sw.st.history,
                        [tool |-> tool_name, package |-> pkg_name, input |-> input_data,
                         output |-> sw.res])],
            IF sw.raised THEN "raised" ELSE "returned", sw.res, invoked, FALSE)

\* AgentCore.run, from the tool's return on: history, snapshot, memory policy,
\* announcement and contract switch.
run_after_tool(s, tool_name, pkg_name, input_data, capture_as_artifact, res, invoked) ==
    run_record(
        run_announce(
            latest_non_conversation_announce(
                enforce_memory_policy(
                    run_capture(s, tool_name, pkg_name, capture_as_artifact),
                    tool_name, res, pkg_name),
                pkg_name),
            res),
        tool_name, pkg_name, input_data, invoked)

\* AgentCore.run, step 3: an exception of tool.run leaves run() as it is.
run_tool_returned(t, tool_name, pkg_name, input_data, capture_as_artifact, invoked) ==
    IF t.raised THEN Outcome(t.st, "raised", Result, invoked, TRUE)
    ELSE run_after_tool(t.st, tool_name, pkg_name, input_data, capture_as_artifact,
                        t.res, invoked)

\* AgentCore.run, steps 2 and 3 for the resolved package
run_scoped(s, tool_name, pkg_name, input_data, capture_as_artifact, env) ==
    IF pkg_name # None /\ pkg_name \notin DOMAIN s.packages
    THEN Outcome(s, "raised", Result, <<>>, FALSE)
    ELSE run_tool_returned(
             tool_run(resolve_workspace_names(s, pkg_name), tool_name, input_data,
                      pkg_name, env),
             tool_name, pkg_name, input_data, capture_as_artifact,
             <<[tool |-> tool_name, mode |-> s.contract_mode]>>)

\* AgentCore.run
run(s, tool_name, package_name, input_data, capture_as_artifact, env) ==
    IF s.contract_mode = "SESSION" /\ tool_name \notin SessionAllowList
    THEN Outcome(s, "refused", Refusal, <<>>, FALSE)
    ELSE IF tool_name \notin RegisteredTools
    THEN Outcome(s, "raised", Result, <<>>, FALSE)
    ELSE run_scoped(s, tool_name,
                    IF package_name # None THEN package_name ELSE s.active_package,
                    input_data, capture_as_artifact, env)

\* -------------------------------------------------------- user messages
\* A message is its characters; str.strip() and str.lower() work on them.
Whitespace == {" "}

UpperCase ==
    <<"A", "B", "C", "D", "E", "F", "G", "H", "I", "J", "K", "L", "M",
      "N", "O", "P", "Q", "R", "S", "T", "U", "V", "W", "X", "Y", "Z">>

LowerCase ==
    <<"a", "b", "c", "d", "e", "f", "g", "h", "i", "j", "k", "l", "m",
      "n", "o", "p", "q", "r", "s", "t", "u", "v", "w", "x", "y", "z">>

LowerChar(c) ==
    IF \E i \in DOMAIN UpperCase : UpperCase[i] = c
    THEN LowerCase[CHOOSE i \in DOMAIN UpperCase : UpperCase[i] = c]
    ELSE c

lower(text) == [i \in DOMAIN text |-> LowerChar(text[i])]

RECURSIVE lstrip(_)
lstrip(text) ==
    IF text = <<>> \/ Head(text) \notin Whitespace THEN text ELSE lstrip(Tail(text))

RECURSIVE rstrip(_)
rstrip(text) ==
    IF text = <<>> \/ text[Len(text)] \notin Whitespace THEN text
    ELSE rstrip(SubSeq(text, 1, Len(text) - 1))

strip(text) == rstrip(lstrip(text))

\* the words of the dialogue, and two messages as a user may type them
YES3 == <<"y", "e", "s">>

YES1 == <<"y">>

START == <<"s", "t", "a", "r", "t">>

STARTSESSION == <<"s", "t", "a", "r", "t", " ", "s", "e", "s", "s", "i", "o", "n">>

NO2 == <<"n", "o">>

NO1 == <<"n">>

CANCEL == <<"c", "a", "n", "c", "e", "l">>

ABORT == <<"a", "b", "o", "r", "t">>

FINISHSESSION == <<"f", "i", "n", "i", "s", "h", " ", "s", "e", "s", "s", "i", "o", "n">>

FINISH == <<"f", "i", "n", "i", "s", "h">>

CONCLUDE == <<"c", "o", "n", "c", "l", "u", "d", "e">>

UFINISH == <<"_", "_", "f", "i", "n", "i", "s", "h", "_", "_">>

UYES == <<" ", "Y", "e", "s">>

HELLO == <<"h", "e", "l", "l", "o">>

\* AgentCore.handle_user_message, the replies that commit a pending switch
YesWords == {YES3, YES1, START, STARTSESSION}

\* AgentCore.handle_user_message, the replies that discard a pending switch
NoWords == {NO2, NO1, CANCEL}

\* AgentCore._session_tick, the messages that conclude a session
FinishWords == {FINISHSESSION, FINISH, CONCLUDE, UFINISH}

\* AgentCore._session_tick, the messages that cancel a session
CancelWords == {CANCEL, ABORT}

\* the messages the model sends
UserTexts == {UYES, CANCEL, ABORT, FINISH, HELLO}

\* the replies of the LLM: plain text, nothing, or one planned action
Replies == {"text", "act_rename"}

\* json.loads of a reply that is an {"actions": [...]} object
ActionsOf(reply) ==
    CASE reply = "act_rename" ->
             <<[tool |-> "name_artifact",
                input |-> [Input EXCEPT !.name = "N", !.type = "prompt"]]>>
      [] OTHER -> <<>>

IsActionsReply(reply) == reply \in {"act_rename"}

\* AgentCore.session_chat, from run()'s return on: an exception gives "";
\* else the text is the first non-empty of ui, response, ..., message.
chat_text(r) ==
    [st |-> r.st,
     text |-> IF r.outcome = "raised" THEN ""
              ELSE IF r.res.ui # None THEN r.res.ui
              ELSE IF r.res.response \notin {None, "empty"} THEN r.res.response
              ELSE r.res.message,
     invoked |-> r.invoked, tool_raised |-> r.tool_raised]

\* AgentCore.session_chat: llm_chat through run(), in the active package.
session_chat(s, env) == chat_text(run(s, "llm_chat", s.active_package, Input, FALSE, env))

\* AgentCore._summarize_session, the fallback when the call fails or returns nothing
summary_or_fallback(c) == [c EXCEPT !.text = IF c.text = "" THEN "fallback_summary" ELSE c.text]

\* AgentCore._summarize_session
summarize_session(s, env) == summary_or_fallback(session_chat(s, env))

\* the two pops of finish and cancel, on the dict _load_ws returned
pop_session(s, pkg, idx, sid) ==
    [s EXCEPT !.packages[pkg].artifacts[idx].content.sessions =
                  {x \in WsContent(s, pkg, idx).sessions : x.sid # sid},
              !.packages[pkg].artifacts[idx].content.pending_session_sid = NoId]

\* A mutant of finish_session: the session is left in the workspace.
finish_session_keeps(c, pkg, idx, sess) ==
    Outcome(switch_contract(
                add_artifact(c.st, pkg, "session_summary",
                             [PlainContent("text") EXCEPT !.body = c.text],
                             "Session Summary: " \o sess.prompt_name),
                "DEFAULT", None),
            "returned", [Message("session_complete") EXCEPT !.ui = "created"],
            c.invoked, c.tool_raised)

\* AgentCore._session_tick, finish, after the summary: the summary artifact is
\* added, the session removed and the contract set back to DEFAULT.
finish_session(c, pkg, idx, sess) ==
    Outcome(switch_contract(
                pop_session(add_artifact(c.st, pkg,
                                         IF sess.artifact_type # None THEN sess.artifact_type
                                         ELSE "session_summary",
                                         [PlainContent("text") EXCEPT !.body = c.text],
                                         "Session Summary: " \o sess.prompt_name),
                            pkg, idx, sess.sid),
                "DEFAULT", None),
            "returned", [Message("session_complete") EXCEPT !.ui = "created"],
            c.invoked, c.tool_raised)

\* AgentCore._session_tick, the end of a freeform turn: the assistant's turn is
\* recorded when there is something to show, and the session stored.  An
\* exception of a planned action's run() leaves the tick before that.
turn_stored(a, pkg, sess, transcript, shown, invoked, tool_raised) ==
    IF a.outcome = "raised"
    THEN Outcome(a.st, "raised", Result, invoked \o a.invoked, tool_raised \/ a.tool_raised)
    ELSE Outcome(store(a.st, pkg,
                       [sess EXCEPT !.transcript = IF shown THEN Append(transcript, "assistant")
                                                   ELSE transcript]),
                 "returned", [Result EXCEPT !.ui = "reply"],
                 invoked \o a.invoked, tool_raised \/ a.tool_raised)

\* AgentCore._session_tick, a freeform turn after the facilitator's reply: a
\* reply that is an {"actions": [...]} object has its action run.
turn_replied(c, pkg, sess, transcript) ==
    turn_stored(IF c.text # "" /\ IsActionsReply(c.text)
                THEN run(c.st, ActionsOf(c.text)[1].tool, c.st.active_package,
                         ActionsOf(c.text)[1].input, FALSE, Env)
                ELSE Outcome(c.st, "returned", Result, <<>>, FALSE),
                pkg, sess, transcript, c.text # "", c.invoked, c.tool_raised)

\* AgentCore._session_tick, the freeform turn after the opening: the user
\* text is recorded and the facilitator replies.
freeform_turn(s, pkg, sess, user_text, env) ==
    turn_replied(session_chat(s, env), pkg, sess,
                 IF strip(user_text) # <<>> THEN Append(sess.transcript, "user")
                 ELSE sess.transcript)

\* A mutant of tick_session: the facilitator replies on the first turn too.
tick_session_replies_first(s, pkg, idx, sess, user_text, env) ==
    IF lower(strip(user_text)) \in FinishWords
    THEN finish_session(summarize_session(s, env), pkg, idx, sess)
    ELSE IF lower(strip(user_text)) \in CancelWords
    THEN Outcome(switch_contract(pop_session(s, pkg, idx, sess.sid), "DEFAULT", None),
                 "returned", Message("session_canceled"), <<>>, FALSE)
    ELSE IF sess.llm_mode /\ sess.llm_style = "freeform"
    THEN freeform_turn(s, pkg, sess, user_text, env)
    ELSE Outcome(s, "returned", Result, <<>>, FALSE)

\* AgentCore._session_tick for the session that is pending
tick_session(s, pkg, idx, sess, user_text, env) ==
    IF lower(strip(user_text)) \in FinishWords
    THEN finish_session(summarize_session(s, env), pkg, idx, sess)
    ELSE IF lower(strip(user_text)) \in CancelWords
    THEN Outcome(switch_contract(pop_session(s, pkg, idx, sess.sid), "DEFAULT", None),
                 "returned", Message("session_canceled"), <<>>, FALSE)
    ELSE IF sess.llm_mode /\ sess.llm_style = "freeform"
    THEN IF sess.transcript = <<>>
         THEN Outcome(store(s, pkg, [sess EXCEPT !.transcript = <<"assistant">>]),
                      "returned", [Result EXCEPT !.ui = "opening"], <<>>, FALSE)
         ELSE freeform_turn(s, pkg, sess, user_text, env)
    ELSE Outcome(s, "returned", Result, <<>>, FALSE)

\* SessionManager.load: the stored session of that id, if any
load(content, sid) == {x \in content.sessions : x.sid = sid}

\* A mutant of tick_loaded: without a stored session the contract is left as it is.
tick_loaded_stays(w, pkg, user_text, env) ==
    IF \/ WsContent(w.st, pkg, w.idx).pending_session_sid = NoId
       \/ load(WsContent(w.st, pkg, w.idx), WsContent(w.st, pkg, w.idx).pending_session_sid) = {}
    THEN Outcome(w.st, "returned", Message("no_active_session"), <<>>, FALSE)
    ELSE tick_session(w.st, pkg, w.idx,
                      CHOOSE x \in load(WsContent(w.st, pkg, w.idx),
                                        WsContent(w.st, pkg, w.idx).pending_session_sid) : TRUE,
                      user_text, env)

\* AgentCore._session_tick on the workspace record _load_ws returned
tick_loaded(w, pkg, user_text, env) ==
    IF \/ WsContent(w.st, pkg, w.idx).pending_session_sid = NoId
       \/ load(WsContent(w.st, pkg, w.idx), WsContent(w.st, pkg, w.idx).pending_session_sid) = {}
    THEN Outcome(switch_contract(w.st, "DEFAULT", None), "returned",
                 Message("no_active_session"), <<>>, FALSE)
    ELSE tick_session(w.st, pkg, w.idx,
                      CHOOSE x \in load(WsContent(w.st, pkg, w.idx),
                                        WsContent(w.st, pkg, w.idx).pending_session_sid) : TRUE,
                      user_text, env)

\* AgentCore._session_tick
session_tick(s, user_text, env) ==
    IF s.active_package = None THEN Outcome(s, "raised", Result, <<>>, FALSE)
    ELSE tick_loaded(load_ws(s, s.active_package), s.active_package, user_text, env)

\* AgentCore._normal_chat_flow
normal_chat_flow(s, env) ==
    run(s, "llm_chat", s.active_package, Input, TRUE, env)

\* AgentCore.handle_user_message with the pending record it read
message_with_pending(s, pending, text, env) ==
    IF pending # {} /\ lower(strip(text)) \in YesWords
    THEN Outcome(switch_contract(clear_pending_switch(s).st,
                                 (CHOOSE x \in pending : TRUE).mode,
                                 (CHOOSE x \in pending : TRUE).session_type),
                 "returned", [Result EXCEPT !.ui = "mode_enabled"], <<>>, FALSE)
    ELSE IF pending # {} /\ lower(strip(text)) \in NoWords
    THEN Outcome(clear_pending_switch(s).st, "returned",
                 Message("staying_in_default_mode"), <<>>, FALSE)
    ELSE IF s.contract_mode = "SESSION"
    THEN session_tick(s, text, env)
    ELSE normal_chat_flow(s, env)

\* AgentCore.handle_user_message on the workspace record _load_ws returned
message_loaded(w, pkg, text, env) ==
    message_with_pending(w.st, WsContent(w.st, pkg, w.idx).pending_contract_switch, text, env)

\* AgentCore.handle_user_message
handle_user_message(s, text, env) ==
    IF s.active_package = None THEN Outcome(s, "raised", Result, <<>>, FALSE)
    ELSE message_loaded(load_ws(s, s.active_package), s.active_package, text, env)

\* ------------------------------------------------------------ observer
\* AgentCore.import_pipeline, the replay loop: each step goes through run();
\* a step that raises ends the replay.
RECURSIVE replay(_, _, _)
replayed(r, rest, invoked) ==
    IF r.outcome = "raised"
    THEN Outcome(r.st, "raised", r.res, invoked \o r.invoked, r.tool_raised)
    ELSE replay(r.st, rest, invoked \o r.invoked)

replay(s, pipeline, invoked) ==
    IF pipeline = <<>> THEN Outcome(s, "returned", Result, invoked, FALSE)
    ELSE replayed(run(s, Head(pipeline).tool, Head(pipeline).package,
                      Head(pipeline).input, FALSE, Env),
                  Tail(pipeline), invoked)

\* AgentCore.import_pipeline
import_pipeline(s, pipeline, package_name) ==
    LET s1 == IF package_name # None /\ package_name \in DOMAIN s.packages
              THEN [s EXCEPT !.packages[package_name].pipelines =
                                 Append(s.packages[package_name].pipelines, pipeline)]
              ELSE s
    IN  replay(s1, pipeline, <<>>)

\* The pending-switch record, the sessions and the pending session id of a
\* package's workspace, as ws.get(...) reads them (absent: empty).
PendingIn(s, pkg) ==
    IF pkg = None \/ pkg \notin DOMAIN s.packages THEN {}
    ELSE IF WsIndex(ArtifactsOf(s, pkg)) = 0 THEN {}
    ELSE WsContent(s, pkg, WsIndex(ArtifactsOf(s, pkg))).pending_contract_switch

SessionsIn(s, pkg) ==
    IF pkg = None \/ pkg \notin DOMAIN s.packages THEN {}
    ELSE IF WsIndex(ArtifactsOf(s, pkg)) = 0 THEN {}
    ELSE WsContent(s, pkg, WsIndex(ArtifactsOf(s, pkg))).sessions

PendingSidIn(s, pkg) ==
    IF pkg = None \/ pkg \notin DOMAIN s.packages THEN NoId
    ELSE IF WsIndex(ArtifactsOf(s, pkg)) = 0 THEN NoId
    ELSE WsContent(s, pkg, WsIndex(ArtifactsOf(s, pkg))).pending_session_sid

\* The workspace content of a package as ws.get(...) reads it (no record:
\* the content a fresh one has).
WsOf(s, pkg) ==
    IF pkg = None \/ pkg \notin DOMAIN s.packages THEN FreshWorkspaceContent
    ELSE IF WsIndex(ArtifactsOf(s, pkg)) = 0 THEN FreshWorkspaceContent
    ELSE WsContent(s, pkg, WsIndex(ArtifactsOf(s, pkg)))

\* (sess.spec.get("artifact") or {}).get("type") of the loaded session, if any
ArtifactTypeOf(loaded) ==
    IF loaded = {} THEN None ELSE (CHOOSE x \in loaded : TRUE).artifact_type

\* package_name or self.active_package_name(): the package a call works in
Scope(package_name) == IF package_name # None THEN package_name ELSE active_package

\* The call just made: what was asked, in which state, and how it ended.
NoCall ==
    [op |-> "init", tool |-> None, package |-> None, text |-> <<>>,
     outcome |-> "returned", tool_raised |-> FALSE, invoked |-> <<>>,
     stored_name |-> NoName, requested |-> NoName,
     pre_mode |-> None, pre_stype |-> None, pre_pending |-> {}, pre_sid |-> NoId,
     pre_arts |-> 0, pre_art_type |-> None, reply |-> None, res_switch |-> None, res_stype |-> None, unchanged |-> FALSE]

\* The observer's record of a handler call made in the current state.
Call(op, tool, package, text, r) ==
    [NoCall EXCEPT !.op = op, !.tool = tool, !.package = package, !.text = text,
                   !.outcome = r.outcome, !.tool_raised = r.tool_raised,
                   !.invoked = r.invoked,
                   !.pre_mode = contract_mode, !.pre_stype = session_type,
                   !.pre_pending = PendingIn(Cur, package),
                   !.pre_sid = PendingSidIn(Cur, active_package),
                   !.pre_arts = uuid.art,
                   !.pre_art_type = ArtifactTypeOf(load(WsOf(Cur, active_package),
                                                        PendingSidIn(Cur, active_package))),
                   !.res_switch = r.res.switch_contract,
                   !.res_stype = r.res.session_type,
                   !.unchanged = (r.st = Cur)]

Commit(s) ==
    /\ packages' = s.packages
    /\ active_package' = s.active_package
    /\ contract_mode' = s.contract_mode
    /\ session_type' = s.session_type
    /\ history' = s.history
    /\ last_announced' = s.last_announced
    /\ uuid' = s.uuid
    /\ UNCHANGED <<tools, script_session>>

WithinBounds(s, maxArts) ==
    /\ s.uuid.art <= maxArts + 1
    /\ s.uuid.sid <= MaxSessions + 1
    /\ Len(s.history) <= MaxHistory
    /\ \A p \in DOMAIN s.packages :
           /\ Len(s.packages[p].pipelines) <= MaxPipelines
           /\ \A x \in SessionsIn(s, p) : Len(x.transcript) <= MaxTranscript

\* ---------------------------------------------------------------- Init
Init ==
    /\ packages = <<>>
    /\ active_package = None
    /\ contract_mode = "DEFAULT"
    /\ session_type = None
    /\ history = <<>>
    /\ last_announced = [p \in PkgNames |-> NoId]
    /\ session_autoswitch \in {"off", "ask", "on"}
    /\ uuid = [art |-> 1, sid |-> 1]
    /\ now = 0
    /\ tools = <<>>
    /\ script_session = NoSession
    /\ last = NoCall

\* -------------------------------------------------------------- actions
\* ArtifactRegistry.create_package: a fresh package under the name.
CreatePackage ==
    \E name \in PkgNames :
        /\ name \notin DOMAIN packages
        /\ packages' = [p \in DOMAIN packages \cup {name} |->
                           IF p = name THEN [artifacts |-> <<>>, pipelines |-> <<>>]
                           ELSE packages[p]]
        /\ last' = [NoCall EXCEPT !.op = "create_package", !.package = name]
        /\ UNCHANGED <<active_package, contract_mode, session_type, history,
                       last_announced, session_autoswitch, uuid, now, tools,
                       script_session>>

\* ArtifactRegistry.use_package
UsePackage ==
    \E name \in PkgNames :
        /\ name \in DOMAIN packages
        /\ active_package # name
        /\ active_package' = name
        /\ last' = [NoCall EXCEPT !.op = "use_package", !.package = name]
        /\ UNCHANGED <<packages, contract_mode, session_type, history,
                       last_announced, session_autoswitch, uuid, now, tools,
                       script_session>>

\* AgentCore.add_artifact / ArtifactRegistry.add_artifact
AddArtifactIn(types, names, maxArts) ==
    \E pkg \in DOMAIN packages, type_ \in types, name \in names :
        LET s == add_artifact(Cur, pkg, type_, PlainContent(ContentOfType(type_)), name)
            arts == ArtifactsOf(s, pkg)
        IN  /\ WithinBounds(s, maxArts)
            /\ Commit(s)
            /\ last' = [NoCall EXCEPT !.op = "add_artifact", !.package = pkg,
                                      !.requested = name,
                                      !.stored_name = arts[Len(arts)].name]
            /\ UNCHANGED <<session_autoswitch, now>>

\* ArtifactRegistry.name_artifact called directly
NameArtifactIn(types, names) ==
    \E pkg \in DOMAIN packages, type_ \in types, name \in names :
        LET r == name_artifact(Cur, pkg, type_, name)
        IN  /\ r.idx # 0
            /\ Commit(r.st)
            /\ last' = [NoCall EXCEPT !.op = "name_artifact", !.package = pkg,
                                      !.requested = name, !.stored_name = name]
            /\ UNCHANGED <<session_autoswitch, now>>

\* A second passes on the wall clock.
Tick ==
    /\ now < MaxClock
    /\ now' = now + 1
    /\ last' = [NoCall EXCEPT !.op = "tick"]
    /\ UNCHANGED <<packages, active_package, contract_mode, session_type, history,
                   last_announced, session_autoswitch, uuid, tools, script_session>>

\* the tool calls the host makes: tool, input and what the tool's work does
ToolCalls ==
    {[tool |-> "execute_prompt_for_session", env |-> Env,
      input |-> [Input EXCEPT !.prompt_artifact_name = "N"]],
     [tool |-> "name_artifact", env |-> Env,
      input |-> [Input EXCEPT !.name = "N", !.type = "prompt"]],
     [tool |-> "custom_tool", env |-> [Env EXCEPT !.raises = TRUE], input |-> Input],
     [tool |-> "custom_tool", input |-> Input,
      env |-> [Env EXCEPT !.switch = "SESSION", !.stype = "review"]]}

\* AgentCore.run called by the host
RunIn(calls, maxArts) ==
    \E c \in calls, package_name \in {None} \cup PkgNames :
        LET r == run(Cur, c.tool, package_name, c.input, FALSE, c.env)
        IN  /\ WithinBounds(r.st, maxArts)
            /\ Commit(r.st)
            /\ last' = Call("run", c.tool, Scope(package_name), <<>>, r)
            /\ UNCHANGED <<session_autoswitch, now>>

\* what the LLM does during a message: the call fails, or it replies
MessageEnvs ==
    {[Env EXCEPT !.raises = TRUE]} \cup {[Env EXCEPT !.reply = x] : x \in Replies}

\* AgentCore.handle_user_message
UserMessageIn(texts, envs, maxArts) ==
    \E text \in texts, env \in envs :
        LET r == handle_user_message(Cur, text, env)
        IN  /\ WithinBounds(r.st, maxArts)
            /\ Commit(r.st)
            /\ last' = [Call("user_message", None, Scope(None), text, r)
                           EXCEPT !.reply = IF r.invoked # <<>> /\ ~r.tool_raised
                                            THEN env.reply ELSE None]
            /\ UNCHANGED <<session_autoswitch, now>>

\* the pipeline files the model replays
Pipelines ==
    LET rename == [tool |-> "name_artifact", package |-> "A",
                   input |-> [Input EXCEPT !.name = "N", !.type = "prompt"]]
        kickoff == [tool |-> "execute_prompt_for_session", package |-> "A",
                    input |-> [Input EXCEPT !.prompt_artifact_name = "N"]]
    IN  {<<kickoff, rename>>}

\* AgentCore.import_pipeline
ImportPipeline ==
    \E pipeline \in Pipelines, package_name \in {None} \cup PkgNames :
        LET r == import_pipeline(Cur, pipeline, package_name)
        IN  /\ WithinBounds(r.st, MaxArtifacts)
            /\ Commit(r.st)
            /\ last' = Call("import_pipeline", pipeline[Len(pipeline)].tool,
                            package_name, <<>>, r)
            /\ UNCHANGED <<session_autoswitch, now>>

AddPrompt == AddArtifactIn({"prompt"}, {"N"}, MaxArtifacts)

Run == RunIn(ToolCalls, MaxArtifacts)

UserMessage == UserMessageIn(UserTexts, MessageEnvs, MaxArtifacts)

Next ==
    \/ CreatePackage
    \/ UsePackage
    \/ AddPrompt
    \/ Run
    \/ UserMessage
    \/ ImportPipeline

Spec == Init /\ [][Next]_vars

\* ------------------------------------------------- guided sessions alone
\* The host of a guided session: one prompt, the kickoff tool, and the
\* messages of a session, with room for the artifacts a conclusion makes.
SessionTexts == {UYES, HELLO, FINISH, CANCEL}

\* what the LLM does during a session message: it fails, replies, or
\* replies with nothing
SessionEnvs ==
    {[Env EXCEPT !.raises = TRUE], [Env EXCEPT !.reply = "text"],
     [Env EXCEPT !.reply = "empty"]}

SessionPrompt == AddArtifactIn({"prompt"}, {"N"}, MaxSessionPrompts)

SessionKickoff ==
    RunIn({[tool |-> "execute_prompt_for_session", env |-> Env,
            input |-> [Input EXCEPT !.prompt_artifact_name = "N"]]},
          MaxSessionArtifacts)

SessionMessage == UserMessageIn(SessionTexts, SessionEnvs, MaxSessionArtifacts)

SessionNext ==
    \/ CreatePackage
    \/ UsePackage
    \/ SessionPrompt
    \/ SessionKickoff
    \/ SessionMessage

SpecSession == Init /\ [][SessionNext]_vars

\* ------------------------------------------------ the store on its own
StoreAddArtifact == AddArtifactIn(StoreTypes, StoreNames \cup {NoName}, MaxStoreArtifacts)

StoreNameArtifact == NameArtifactIn(StoreTypes, {"N"})

\* NameArtifactTool.run on the latest artifact of a type
StoreNameArtifactTool ==
    \E pkg \in DOMAIN packages, type_ \in StoreTypes :
        LET r == name_artifact_run(Cur, [Input EXCEPT !.name = "N", !.type = type_], pkg)
        IN  /\ r.res.artifact_id # NoId
            /\ Commit(r.st)
            /\ last' = [NoCall EXCEPT !.op = "name_artifact_tool", !.package = pkg,
                                      !.requested = "N", !.stored_name = "N"]
            /\ UNCHANGED <<session_autoswitch, now>>

\* TransformTool.run with a name for its output
StoreTransformTool ==
    \E pkg \in DOMAIN packages :
        LET r == transform_tool_run(Cur, [Input EXCEPT !.name = "N"], pkg, Env)
        IN  /\ WithinBounds(r.st, MaxStoreArtifacts)
            /\ Commit(r.st)
            /\ last' = [NoCall EXCEPT !.op = "transform_tool", !.package = pkg,
                                      !.requested = "N", !.stored_name = "N"]
            /\ UNCHANGED <<session_autoswitch, now>>

StoreInit == Init /\ session_autoswitch = "on"

StoreNext ==
    \/ CreatePackage
    \/ StoreAddArtifact
    \/ StoreNameArtifact
    \/ StoreNameArtifactTool
    \/ StoreTransformTool
    \/ Tick

SpecStore == StoreInit /\ [][StoreNext]_vars

\* ------------------------------------------- the workspace record alone
\* workspace_store._load_ws called for a package, as every workspace tool,
\* the session manager and the dispatcher do.
WsAccess ==
    \E pkg \in DOMAIN packages :
        /\ WithinBounds(load_ws(Cur, pkg).st, MaxStoreArtifacts)
        /\ Commit(load_ws(Cur, pkg).st)
        /\ last' = [NoCall EXCEPT !.op = "load_ws", !.package = pkg,
                                  !.pre_arts = uuid.art,
                                  !.unchanged = (load_ws(Cur, pkg).st = Cur)]
        /\ UNCHANGED <<session_autoswitch, now>>

WsAddArtifact == AddArtifactIn({"table"}, {"N", NoName}, MaxStoreArtifacts)

\* AgentCore.run of the rename tool, by type or without a target
WsRun ==
    RunIn({[tool |-> "name_artifact", env |-> Env,
            input |-> [Input EXCEPT !.name = "N", !.type = type_]] :
               type_ \in {WORKSPACE_ARTIFACT_TYPE, "table", None}},
          MaxStoreArtifacts)

WsNext ==
    \/ CreatePackage
    \/ UsePackage
    \/ WsAccess
    \/ WsAddArtifact
    \/ WsRun

SpecWorkspace == StoreInit /\ [][WsNext]_vars

\* ---------------------------------------------------------- tool registry
\* the artifact types the registered tools declare
PlanTypes == {"csv", "table", "hierarchy"}

\* the TOOL_NAMEs, in the order the tools are registered (one more than
\* MaxTools, so that the registry can be checked one tool larger)
PlanToolNames == <<"T1", "T2", "T3", "T4">>

\* io_schema["inputs"] and io_schema["outputs"] of a tool, by the types the
\* entries declare, in the order of the dict
InputDecls == {<<x>> : x \in PlanTypes} \cup {<<"csv", "table">>}

OutputDecls ==
    {<<>>} \cup {<<x>> : x \in PlanTypes} \cup {<<"table", "hierarchy">>}

\* ToolRegistry.register_tool: self.tools[name] = meta; a name already
\* registered keeps its place in the dict.
register_tool(reg, name, inputs, outputs) ==
    IF \E i \in DOMAIN reg : reg[i].name = name
    THEN [i \in DOMAIN reg |->
              IF reg[i].name = name
              THEN [name |-> name, inputs |-> inputs, outputs |-> outputs]
              ELSE reg[i]]
    ELSE Append(reg, [name |-> name, inputs |-> inputs, outputs |-> outputs])

RECURSIVE Flatten(_)
Flatten(seqs) == IF seqs = <<>> THEN <<>> ELSE seqs[1] \o Flatten(Tail(seqs))

\* A mutant of consumes: the tools in the reverse of the registry's order.
consumes_last_first(reg, art) ==
    Flatten([i \in DOMAIN reg |->
                 [j \in DOMAIN SelectSeq(reg[Len(reg) + 1 - i].inputs, LAMBDA x : x = art) |->
                      reg[Len(reg) + 1 - i].name]])

\* ToolRegistry._build_maps, consumes[art]: the tool's name once for every
\* input declaring the type, tools in the order of the registry.
consumes(reg, art) ==
    Flatten([i \in DOMAIN reg |->
                 [j \in DOMAIN SelectSeq(reg[i].inputs, LAMBDA x : x = art) |-> reg[i].name]])

\* ToolRegistry.plan_path, tool_outputs[tool_name]
tool_outputs(reg, tool_name) ==
    (CHOOSE m \in {reg[i] : i \in DOMAIN reg} : m.name = tool_name).outputs

\* ToolRegistry.plan_path, the two for loops over one dequeued type: the
\* pairs (tool_name, ot) in the order the loops visit them.
Edges(reg, current_type) ==
    Flatten([k \in DOMAIN consumes(reg, current_type) |->
                 [j \in DOMAIN tool_outputs(reg, consumes(reg, current_type)[k]) |->
                      [tool |-> consumes(reg, current_type)[k],
                       ot |-> tool_outputs(reg, consumes(reg, current_type)[k])[j]]]])

\* A mutant of expand: a tool that leads from the start type straight to the
\* goal is not taken.
RECURSIVE expand_indirect(_, _, _, _, _)
expand_indirect(edges, goal_type, plan, queue, visited_artifacts) ==
    IF edges = <<>>
    THEN [found |-> FALSE, plan |-> <<>>, queue |-> queue, visited |-> visited_artifacts]
    ELSE IF edges[1].ot = goal_type /\ plan # <<>>
    THEN [found |-> TRUE, plan |-> Append(plan, edges[1].tool), queue |-> queue,
          visited |-> visited_artifacts]
    ELSE IF edges[1].ot \notin visited_artifacts
    THEN expand_indirect(Tail(edges), goal_type, plan,
                         Append(queue, [type |-> edges[1].ot,
                                        plan |-> Append(plan, edges[1].tool)]),
                         visited_artifacts \cup {edges[1].ot})
    ELSE expand_indirect(Tail(edges), goal_type, plan, queue, visited_artifacts)

\* ToolRegistry.plan_path, the body of the while loop after popleft: the goal
\* ends the search with plan + [tool_name]; a type not yet visited is marked
\* and queued.
RECURSIVE expand(_, _, _, _, _)
expand(edges, goal_type, plan, queue, visited_artifacts) ==
    IF edges = <<>>
    THEN [found |-> FALSE, plan |-> <<>>, queue |-> queue, visited |-> visited_artifacts]
    ELSE IF edges[1].ot = goal_type
    THEN [found |-> TRUE, plan |-> Append(plan, edges[1].tool), queue |-> queue,
          visited |-> visited_artifacts]
    ELSE IF edges[1].ot \notin visited_artifacts
    THEN expand(Tail(edges), goal_type, plan,
                Append(queue, [type |-> edges[1].ot, plan |-> Append(plan, edges[1].tool)]),
                visited_artifacts \cup {edges[1].ot})
    ELSE expand(Tail(edges), goal_type, plan, queue, visited_artifacts)

RECURSIVE search(_, _, _, _)

\* ToolRegistry.plan_path, the while loop after one entry was expanded
searched(reg, goal_type, e) ==
    IF e.found THEN e.plan ELSE search(reg, goal_type, e.queue, e.visited)

\* ToolRegistry.plan_path, the while loop: an empty queue ends it with [].
search(reg, goal_type, queue, visited_artifacts) ==
    IF queue = <<>> THEN <<>>
    ELSE searched(reg, goal_type,
                  expand(Edges(reg, queue[1].type), goal_type, queue[1].plan, Tail(queue),
                         visited_artifacts))

\* A mutant of plan_path: equal start and goal are searched like any other.
plan_path_searches_all(reg, start_type, goal_type) ==
    search(reg, goal_type, <<[type |-> start_type, plan |-> <<>>]>>, {start_type})

\* ToolRegistry.plan_path
plan_path(reg, start_type, goal_type) ==
    IF start_type = goal_type THEN <<>>
    ELSE search(reg, goal_type, <<[type |-> start_type, plan |-> <<>>]>>, {start_type})

\* the frame of the registry's operations: the agent is not involved
AgentUnchanged ==
    UNCHANGED <<packages, active_package, contract_mode, session_type, history,
                last_announced, session_autoswitch, uuid, now>>

\* ToolRegistry.register_tool, the next tool class being registered
RegisterTool ==
    \E inputs \in InputDecls, outputs \in OutputDecls :
        /\ Len(tools) < MaxTools
        /\ tools' = register_tool(tools, PlanToolNames[Len(tools) + 1], inputs, outputs)
        /\ last' = [op |-> "register_tool"]
        /\ AgentUnchanged
        /\ UNCHANGED script_session

\* ToolRegistry.plan_path called by a host
PlanPath ==
    \E start_type \in PlanTypes, goal_type \in PlanTypes :
        /\ last' = [op |-> "plan_path", start |-> start_type, goal |-> goal_type,
                    plan |-> plan_path(tools, start_type, goal_type)]
        /\ AgentUnchanged
        /\ UNCHANGED <<tools, script_session>>

PlanNext ==
    \/ RegisterTool
    \/ PlanPath

SpecPlan == StoreInit /\ [][PlanNext]_vars

\* ------------------------------------------------------ scripted sessions
\* Answers and step types are their characters, as messages are.
Digits == <<"0", "1", "2", "3", "4", "5", "6", "7", "8", "9">>

IsDigit(c) == \E i \in DOMAIN Digits : Digits[i] = c

DigitValue(c) == (CHOOSE i \in DOMAIN Digits : Digits[i] = c) - 1

RECURSIVE digits_value(_)
digits_value(ds) ==
    IF ds = <<>> THEN 0
    ELSE digits_value(SubSeq(ds, 1, Len(ds) - 1)) * 10 + DigitValue(ds[Len(ds)])

AllDigits(ds) == ds # <<>> /\ \A i \in DOMAIN ds : IsDigit(ds[i])

\* a numeric literal without its sign, and the sign
Unsigned(text) == IF text # <<>> /\ text[1] \in {"+", "-"} THEN Tail(text) ELSE text

Sign(text) == IF text # <<>> /\ text[1] = "-" THEN 0 - 1 ELSE 1

\* int(ans) of a stripped text over digits, signs, letters and "." : a sign
\* and decimal digits, anything else raises ValueError.
IsIntText(ans) == AllDigits(Unsigned(ans))

int(ans) == [t |-> "int", v |-> Sign(ans) * digits_value(Unsigned(ans))]

DotsOf(text) == {i \in DOMAIN text : text[i] = "."}

WithoutDots(text) == SelectSeq(text, LAMBDA c : c # ".")

RECURSIVE Pow10(_)
Pow10(n) == IF n = 0 THEN 1 ELSE 10 * Pow10(n - 1)

\* float(ans) over the same characters: digits with at most one ".", at
\* least one digit; the value is kept as the fraction num / den.
IsFloatText(ans) ==
    /\ Cardinality(DotsOf(Unsigned(ans))) <= 1
    /\ AllDigits(WithoutDots(Unsigned(ans)))

float(ans) ==
    [t |-> "float",
     v |-> <<Sign(ans) * digits_value(WithoutDots(Unsigned(ans))),
             IF DotsOf(Unsigned(ans)) = {} THEN 1
             ELSE Pow10(Len(Unsigned(ans)) - (CHOOSE i \in DotsOf(Unsigned(ans)) : TRUE))>>]

\* ans.lower() in {"y", "yes", "true", "1"}
bool(ans) ==
    [t |-> "bool", v |-> lower(ans) \in {YES1, YES3, <<"t", "r", "u", "e">>, <<"1">>}]

\* str.split(sep)
RECURSIVE split(_, _)
split(text, sep) ==
    IF \A i \in DOMAIN text : text[i] # sep THEN <<text>>
    ELSE <<SubSeq(text, 1, (CHOOSE i \in DOMAIN text :
                                 text[i] = sep /\ \A j \in 1..(i - 1) : text[j] # sep) - 1)>>
             \o split(SubSeq(text, (CHOOSE i \in DOMAIN text :
                                        text[i] = sep /\ \A j \in 1..(i - 1) : text[j] # sep) + 1,
                             Len(text)), sep)

\* [x.strip() for x in ans.split(",") if x.strip()]
list(ans) ==
    [t |-> "list",
     v |-> SelectSeq([i \in DOMAIN split(ans, ",") |-> strip(split(ans, ",")[i])],
                     LAMBDA x : x # <<>>)]

\* a step that declares no type (or an empty one)
NoType == <<>>

TINT == <<"i", "n", "t">>

TFLOAT == <<"f", "l", "o", "a", "t">>

TBOOL == <<"b", "o", "o", "l">>

TLIST == <<"l", "i", "s", "t">>

TTEXT == <<"t", "e", "x", "t">>

\* SessionManager.record_and_advance, the try block: the typed value, or the
\* ValueError of int() and float()
coerce(typ, ans) ==
    IF typ = TINT
    THEN IF IsIntText(ans) THEN [ok |-> TRUE, val |-> int(ans)]
         ELSE [ok |-> FALSE, val |-> None]
    ELSE IF typ = TFLOAT
    THEN IF IsFloatText(ans) THEN [ok |-> TRUE, val |-> float(ans)]
         ELSE [ok |-> FALSE, val |-> None]
    ELSE IF typ = TBOOL THEN [ok |-> TRUE, val |-> bool(ans)]
    ELSE IF typ = TLIST THEN [ok |-> TRUE, val |-> list(ans)]
    ELSE [ok |-> TRUE, val |-> [t |-> "str", v |-> ans]]

\* the number a Python int, float or bool compares as, as a fraction
Fraction(x) ==
    IF x.t = "float" THEN x.v
    ELSE IF x.t = "bool" THEN <<IF x.v THEN 1 ELSE 0, 1>>
    ELSE <<x.v, 1>>

\* Python's == between two values: numbers compare by value, the others
\* within their own type
PyEq(x, y) ==
    IF x.t \in {"int", "float", "bool"} /\ y.t \in {"int", "float", "bool"}
    THEN Fraction(x)[1] * Fraction(y)[2] = Fraction(y)[1] * Fraction(x)[2]
    ELSE x.t = y.t /\ x.v = y.v

\* re.match(pattern, val) for the one pattern of the modelled specs: the
\* match is anchored at the start only.
re_match(pattern, val) ==
    IF pattern = "[a-z]+"
    THEN val # <<>> /\ \E i \in DOMAIN LowerCase : LowerCase[i] = val[1]
    ELSE TRUE

\* Session.steps[sess.step - 1] (Python counts the steps from 0)
PrevStep(s_) == s_.steps[s_.step]

\* prev.get("key") or f"q{sess.step}"
StepKey(s_) ==
    IF PrevStep(s_).key # None THEN PrevStep(s_).key ELSE <<"q1", "q2", "q3">>[s_.step]

\* (prev.get("type") or "text").lower()
StepType(s_) == lower(IF PrevStep(s_).type # NoType THEN PrevStep(s_).type ELSE TTEXT)

\* the answers with answers[key] = val
WithAnswer(answers, key, val) ==
    [k \in DOMAIN answers \cup {key} |-> IF k = key THEN val ELSE answers[k]]

\* A mutant of record_coerced: the value is stored before it is validated.
record_coerced_eager(s_, key, c) ==
    IF ~c.ok THEN [sess |-> s_, error |-> "expected_type"]
    ELSE IF /\ key \in DOMAIN s_.validate
            /\ s_.validate[key].has_enum
            /\ ~\E e \in s_.validate[key].enum : PyEq(c.val, e)
    THEN [sess |-> [s_ EXCEPT !.answers = WithAnswer(s_.answers, key, c.val)],
          error |-> "not_in_enum"]
    ELSE [sess |-> [s_ EXCEPT !.answers = WithAnswer(s_.answers, key, c.val)],
          error |-> None]

\* SessionManager.record_and_advance after the coercion: the ValueError is
\* answered with an error text, then validate[key] is applied, and only then
\* the value stored.
record_coerced(s_, key, c) ==
    IF ~c.ok THEN [sess |-> s_, error |-> "expected_type"]
    ELSE IF /\ key \in DOMAIN s_.validate
            /\ s_.validate[key].has_enum
            /\ ~\E e \in s_.validate[key].enum : PyEq(c.val, e)
    THEN [sess |-> s_, error |-> "not_in_enum"]
    ELSE IF /\ key \in DOMAIN s_.validate
            /\ s_.validate[key].regex # None
            /\ c.val.t = "str"
            /\ ~re_match(s_.validate[key].regex, c.val.v)
    THEN [sess |-> s_, error |-> "no_match"]
    ELSE [sess |-> [s_ EXCEPT !.answers = WithAnswer(s_.answers, key, c.val)],
          error |-> None]

\* A mutant of record_and_advance: a recorded answer moves the cursor.
record_and_advance_moves(s_, user_answer) ==
    IF s_.step = 0 THEN [sess |-> s_, error |-> None]
    ELSE [sess |-> [record_coerced(s_, StepKey(s_), coerce(StepType(s_), strip(user_answer))).sess
                       EXCEPT !.step = IF s_.step < Len(s_.steps) THEN s_.step + 1 ELSE s_.step],
          error |-> record_coerced(s_, StepKey(s_),
                                   coerce(StepType(s_), strip(user_answer))).error]

\* SessionManager.record_and_advance: nothing is recorded while the cursor is
\* at 0; else the answer is for the step before the cursor.
record_and_advance(s_, user_answer) ==
    IF s_.step = 0 THEN [sess |-> s_, error |-> None]
    ELSE record_coerced(s_, StepKey(s_), coerce(StepType(s_), strip(user_answer)))

\* A mutant of advance: the cursor moves one step beyond the last step.
advance_past(s_) == IF s_.step <= Len(s_.steps) THEN [s_ EXCEPT !.step = s_.step + 1] ELSE s_

\* SessionManager.advance
advance(s_) == IF s_.step < Len(s_.steps) THEN [s_ EXCEPT !.step = s_.step + 1] ELSE s_

\* SessionManager.finished
finished(s_) == s_.step >= Len(s_.steps)

\* SessionManager.next_prompt: None when no step is left; else the "ask" of
\* the step at the cursor, or a generated prompt when it has none (Python
\* counts the steps from 0).
next_prompt(s_) ==
    IF s_.step >= Len(s_.steps) THEN None
    ELSE IF s_.steps[s_.step + 1].ask \notin {None, ""} THEN s_.steps[s_.step + 1].ask
    ELSE "Provide a value for '"
             \o (IF s_.steps[s_.step + 1].key # None THEN s_.steps[s_.step + 1].key ELSE "q")
             \o "'."

\* the steps a modelled spec declares: the first with or without a key and
\* with or without an "ask" text, the second with an empty "ask"
FirstSteps ==
    [key : {"a", None}, type : {TINT, TFLOAT, TBOOL, TLIST, NoType}, ask : {"ask_a", None}]

SecondSteps == [key : {"b"}, type : {TINT, NoType}, ask : {""}]

\* spec["session"]["validate"]: no rule, or one rule for one key (has_enum:
\* the rule has an "enum" entry; regex None: it has no "regex" entry)
Validations ==
    {<<>>,
     [k \in {"a"} |-> [has_enum |-> TRUE,
                       enum |-> {[t |-> "int", v |-> 5], [t |-> "str", v |-> <<"Y", "e", "s">>]},
                       regex |-> None]],
     [k \in {"a"} |-> [has_enum |-> FALSE, enum |-> {}, regex |-> "[a-z]+"]],
     [k \in {"b"} |-> [has_enum |-> TRUE, enum |-> {[t |-> "int", v |-> 5]},
                       regex |-> None]]}

ScriptSpecs ==
    [steps : {<<x>> : x \in FirstSteps} \cup {<<x, y>> : x \in FirstSteps, y \in SecondSteps},
     validate : Validations]

NOTANINT == <<"n", "o", "t", "a", "n", "i", "n", "t">>

FIVE == <<"5">>

ONEHALF == <<"1", ".", "5">>

LISTAB == <<"a", ",", " ", "b">>

\* the answers a user gives
ScriptAnswers == {NOTANINT, FIVE, ONEHALF, LISTAB, UYES}

\* Session(sid=sid, spec=spec, step=0): the session SessionManager.start
\* constructs from a normalized spec
ScriptStart ==
    \E spec \in ScriptSpecs :
        /\ Len(spec.steps) <= MaxSteps
        /\ script_session = NoSession
        /\ script_session' = [sid |-> 1, step |-> 0, answers |-> <<>>,
                              steps |-> spec.steps, validate |-> spec.validate]
        /\ last' = [op |-> "start"]
        /\ AgentUnchanged
        /\ UNCHANGED tools

\* SessionManager.advance called by the host
ScriptAdvance ==
    /\ script_session.sid # NoId
    /\ script_session' = advance(script_session)
    /\ last' = [op |-> "advance", pre |-> script_session]
    /\ AgentUnchanged
    /\ UNCHANGED tools

\* SessionManager.record_and_advance called by the host
ScriptRecord ==
    \E user_answer \in ScriptAnswers :
        /\ script_session.sid # NoId
        /\ script_session' = record_and_advance(script_session, user_answer).sess
        /\ last' = [op |-> "record", answer |-> user_answer, pre |-> script_session,
                    error |-> record_and_advance(script_session, user_answer).error]
        /\ AgentUnchanged
        /\ UNCHANGED tools

\* SessionManager.next_prompt called by the host
ScriptNextPrompt ==
    /\ script_session.sid # NoId
    /\ last' = [op |-> "next_prompt", prompt |-> next_prompt(script_session)]
    /\ AgentUnchanged
    /\ UNCHANGED <<tools, script_session>>

\* SessionManager.finished called by the host
ScriptFinished ==
    /\ script_session.sid # NoId
    /\ last' = [op |-> "finished", result |-> finished(script_session)]
    /\ AgentUnchanged
    /\ UNCHANGED <<tools, script_session>>

ScriptNext ==
    \/ ScriptStart
    \/ ScriptAdvance
    \/ ScriptRecord
    \/ ScriptNextPrompt
    \/ ScriptFinished

SpecScript == StoreInit /\ [][ScriptNext]_vars

\* -------------------------------------------------------- name resolution
\* A payload value carries its Python type: "str" (its characters), "int",
\* "list" (a sequence of values) or "dict" (a function from keys to values).
Str(chars) == [k |-> "str", v |-> chars]

\* str.lstrip("@"): every leading "@" is removed
RECURSIVE lstrip_at(_)
lstrip_at(text) ==
    IF text = <<>> \/ Head(text) # "@" THEN text ELSE lstrip_at(Tail(text))

\* ws_map.get(key): the entries of the artifacts map under the name
Entries(ws_map, key) == {e \in ws_map : e.name = key}

\* A mutant of resolve_str: a string that names nothing loses one leading "@".
resolve_str_strips(chars, ws_map) ==
    IF Entries(ws_map, lstrip_at(chars)) = {}
    THEN IF chars # <<>> /\ Head(chars) = "@" THEN Tail(chars) ELSE chars
    ELSE IF (CHOOSE e \in Entries(ws_map, lstrip_at(chars)) : TRUE).artifact_id # <<>>
    THEN (CHOOSE e \in Entries(ws_map, lstrip_at(chars)) : TRUE).artifact_id
    ELSE lstrip_at(chars)

\* workspace_resolver.resolve_str on a string: the name without its leading
\* "@"s is looked up; a hit gives the entry's artifact_id, or the bare name
\* when the entry has none.
resolve_str(chars, ws_map) ==
    IF Entries(ws_map, lstrip_at(chars)) = {} THEN chars
    ELSE IF (CHOOSE e \in Entries(ws_map, lstrip_at(chars)) : TRUE).artifact_id # <<>>
    THEN (CHOOSE e \in Entries(ws_map, lstrip_at(chars)) : TRUE).artifact_id
    ELSE lstrip_at(chars)

\* workspace_resolver.walk: dicts and lists are rebuilt with their values
\* walked, strings resolved, anything else returned as it is.
RECURSIVE walk(_, _)
walk(x, ws_map) ==
    IF x.k = "dict" THEN [k |-> "dict", v |-> [key \in DOMAIN x.v |-> walk(x.v[key], ws_map)]]
    ELSE IF x.k = "list" THEN [k |-> "list", v |-> [i \in DOMAIN x.v |-> walk(x.v[i], ws_map)]]
    ELSE IF x.k = "str" THEN Str(resolve_str(x.v, ws_map))
    ELSE x

\* the names and ids of the modelled workspaces, and payload strings
BOM == <<"B">>

ATBOM == <<"@", "B">>

ATATBOM == <<"@", "@", "B">>

LITERAL == <<"x">>

ID1 == <<"i", "d", "1">>

ID2 == <<"i", "d", "2">>

\* ws["artifacts"] as the workspace record holds it: name -> {artifact_id, ...}.
\* A logical name is any string, so the last map has an artifact whose name is
\* the id of another one.
WsMaps ==
    {{}, {[name |-> BOM, artifact_id |-> ID1]}, {[name |-> ATBOM, artifact_id |-> ID2]},
     {[name |-> BOM, artifact_id |-> ID1], [name |-> LITERAL, artifact_id |-> ID2]},
     {[name |-> BOM, artifact_id |-> ID1], [name |-> ID1, artifact_id |-> ID2]}}

Leaves ==
    {Str(BOM), Str(ATBOM), Str(ATATBOM), Str(LITERAL), Str(ID1), [k |-> "int", v |-> 7]}

List(seq) == [k |-> "list", v |-> seq]

Dict(fn) == [k |-> "dict", v |-> fn]

\* the payloads: a value, a list, a map, and one nested in the other
InputObjs ==
    Leaves
        \cup {List(<<x>>) : x \in Leaves}
        \cup {List(<<x, y>>) : x \in Leaves, y \in Leaves}
        \cup {Dict([key \in {"a"} |-> x]) : x \in Leaves}
        \cup {Dict([key \in {"a"} |-> List(<<x>>)]) : x \in Leaves}
        \cup {List(<<Dict([key \in {"a"} |-> x])>>) : x \in Leaves}
        \cup {Dict([key \in {"a", "b"} |-> IF key = "a" THEN x ELSE y]) :
                  x \in Leaves, y \in Leaves}

\* workspace_resolver.resolve_workspace_names on a payload, for a package
\* whose workspace record holds the map
ResolveNames ==
    \E ws_map \in WsMaps, input_obj \in InputObjs :
        /\ last' = [op |-> "resolve", ws_map |-> ws_map, input |-> input_obj,
                    output |-> walk(input_obj, ws_map)]
        /\ AgentUnchanged
        /\ UNCHANGED <<tools, script_session>>

ResolveNext == ResolveNames

SpecResolve == StoreInit /\ [][ResolveNext]_vars

\* ----------------------------------------------------------- run() alone
\* ArtifactRegistry.create_package: self.packages[name] = ArtifactPackage(name),
\* whether or not the name is taken.
create_package(s, name) ==
    [s EXCEPT !.packages = [p \in DOMAIN s.packages \cup {name} |->
                               IF p = name THEN [artifacts |-> <<>>, pipelines |-> <<>>]
                               ELSE s.packages[p]]]

\* The dict tool.run returned to run(), as it is when the history record is
\* built from it (AgentCore.run, steps 3 and 4).
tool_returned(s, tool_name, pkg_name, input_data, env) ==
    tool_run(resolve_workspace_names(s, pkg_name), tool_name, input_data, pkg_name, env).res

\* The id run() announced for the package: the announcement was put into the
\* result or _last_announced[pkg] moved, and _last_announced[pkg] is the id.
AnnouncedBy(s, r, pkg) ==
    IF pkg = None THEN NoId
    ELSE IF \/ r.res.artifact_message = "announce"
            \/ r.st.last_announced[pkg] # s.last_announced[pkg]
    THEN r.st.last_announced[pkg]
    ELSE NoId

\* The observer of this specification: the call, the state it was made in,
\* what the tool returned, the id announced, and the (package, id) pairs the
\* calls before it announced.
NoRunCall ==
    [op |-> "init", tool |-> None, package |-> None, capture |-> FALSE,
     outcome |-> "returned", invoked |-> <<>>, tool_raised |-> FALSE,
     res |-> Result, tool_res |-> Result, pre |-> [uuid |-> [art |-> 0, sid |-> 0]],
     ann |-> NoId, announced |-> {}]

RunInit ==
    /\ packages = <<>>
    /\ active_package = None
    /\ contract_mode = "DEFAULT"
    /\ session_type = None
    /\ history = <<>>
    /\ last_announced = [p \in PkgNames |-> NoId]
    /\ session_autoswitch \in {"off", "ask", "on"}
    /\ uuid = [art |-> 1, sid |-> 1]
    /\ now = 0
    /\ tools = <<>>
    /\ script_session = NoSession
    /\ last = NoRunCall

\* the announcements made up to and including the call `last`
AnnouncedSoFar ==
    IF last.ann = NoId THEN last.announced
    ELSE last.announced \cup {<<last.package, last.ann>>}

RunWithin(s) ==
    /\ s.uuid.art <= MaxRunArtifacts + 1
    /\ Len(s.history) <= MaxRunHistory

\* ArtifactRegistry.create_package called by the host, under any name
RunCreatePackage ==
    \E name \in PkgNames :
        /\ Commit(create_package(Cur, name))
        /\ last' = [NoRunCall EXCEPT !.op = "create_package", !.package = name,
                                     !.pre = Cur, !.announced = AnnouncedSoFar]
        /\ UNCHANGED <<session_autoswitch, now>>

\* ArtifactRegistry.use_package
RunUsePackage ==
    \E name \in PkgNames :
        /\ name \in DOMAIN packages
        /\ active_package # name
        /\ active_package' = name
        /\ last' = [NoRunCall EXCEPT !.op = "use_package", !.package = name,
                                     !.pre = Cur, !.announced = AnnouncedSoFar]
        /\ UNCHANGED <<packages, contract_mode, session_type, history,
                       last_announced, session_autoswitch, uuid, now, tools,
                       script_session>>

\* A second passes on the wall clock.
RunTick ==
    /\ now < MaxClock
    /\ now' = now + 1
    /\ last' = [NoRunCall EXCEPT !.op = "tick", !.pre = Cur,
                                 !.announced = AnnouncedSoFar]
    /\ UNCHANGED <<packages, active_package, contract_mode, session_type, history,
                   last_announced, session_autoswitch, uuid, tools, script_session>>

\* the tool calls of this specification: the two tools with a remember
\* output, and a tool that asks for a contract switch
RunCalls ==
    {[tool |-> "create_artifact", env |-> Env,
      input |-> [Input EXCEPT !.name = "N", !.type = "table"]],
     [tool |-> "llm_chat", env |-> Env, input |-> Input],
     [tool |-> "custom_tool", input |-> Input,
      env |-> [Env EXCEPT !.switch = "SESSION", !.stype = "review"]]}

\* AgentCore.run called by the host
RunCallIn(calls, captures, maxHistory) ==
    \E c \in calls, package_name \in {None} \cup PkgNames, capture \in captures :
        LET r == run(Cur, c.tool, package_name, c.input, capture, c.env)
        IN  /\ RunWithin(r.st)
            /\ Len(r.st.history) <= maxHistory
            /\ Commit(r.st)
            /\ last' = [NoRunCall EXCEPT
                           !.op = "run", !.tool = c.tool, !.package = Scope(package_name),
                           !.capture = capture, !.outcome = r.outcome,
                           !.invoked = r.invoked, !.tool_raised = r.tool_raised,
                           !.res = r.res,
                           !.tool_res = IF r.invoked # <<>> /\ ~r.tool_raised
                                        THEN tool_returned(Cur, c.tool, Scope(package_name),
                                                           c.input, c.env)
                                        ELSE Result,
                           !.pre = Cur,
                           !.ann = AnnouncedBy(Cur, r, Scope(package_name)),
                           !.announced = AnnouncedSoFar]
            /\ UNCHANGED <<session_autoswitch, now>>

\* with and without a snapshot
RunCall == RunCallIn(RunCalls, BOOLEAN, MaxRunHistory)

RunNext ==
    \/ RunCreatePackage
    \/ RunUsePackage
    \/ RunTick
    \/ RunCall

SpecRun == RunInit /\ [][RunNext]_vars

\* ------------------------------------------------------ history replay
\* AgentCore.record_decision: the record has the keys tool, rule, choice and
\* metadata; step.get("package") and step.get("input") of it read None, and
\* run() takes the input None for the empty dict.
DecisionRecord ==
    [tool |-> "decision", package |-> None, input |-> Input, output |-> Result]

record_decision(s) == [s EXCEPT !.history = Append(s.history, DecisionRecord)]

\* The steps import_pipeline reads from the history written out as JSON and
\* loaded again: step["tool"], step.get("package"), step.get("input").
Steps(records) ==
    [i \in DOMAIN records |->
        [tool |-> records[i].tool, package |-> records[i].package,
         input |-> records[i].input]]

\* AgentCore.record_decision called by the host
RecordDecision ==
    /\ Len(history) < MaxReplayHistory
    /\ Commit(record_decision(Cur))
    /\ last' = [NoRunCall EXCEPT !.op = "record_decision", !.pre = Cur,
                                 !.announced = AnnouncedSoFar]
    /\ UNCHANGED <<session_autoswitch, now>>

\* the recorded runs of this specification
ReplayRun ==
    RunCallIn({[tool |-> "create_artifact", env |-> Env,
                input |-> [Input EXCEPT !.name = "N", !.type = "table"]],
               [tool |-> "custom_tool", input |-> Input,
                env |-> [Env EXCEPT !.switch = "SESSION", !.stype = "review"]]},
              {FALSE}, MaxReplayHistory)

\* AgentCore.import_pipeline on the agent's own exported history
ReplayHistory ==
    \E package_name \in {None} \cup PkgNames :
        LET r == import_pipeline(Cur, Steps(history), package_name)
        IN  /\ history # <<>>
            /\ RunWithin(r.st)
            /\ Len(r.st.history) <= 2 * MaxReplayHistory
            /\ \A p \in DOMAIN r.st.packages :
                   Len(r.st.packages[p].pipelines) <= MaxPipelines
            /\ Commit(r.st)
            /\ last' = [NoRunCall EXCEPT !.op = "replay", !.package = package_name,
                                         !.outcome = r.outcome, !.invoked = r.invoked,
                                         !.tool_raised = r.tool_raised, !.pre = Cur,
                                         !.announced = AnnouncedSoFar]
            /\ UNCHANGED <<session_autoswitch, now>>

ReplayNext ==
    \/ RunCreatePackage
    \/ RunUsePackage
    \/ ReplayRun
    \/ RecordDecision
    \/ ReplayHistory

SpecReplay == RunInit /\ [][ReplayNext]_vars

\* ------------------------------------------------------ workspace memory
\* governance.POLICY["max_tokens_workspace_inject"]
max_tokens_workspace_inject == 40000

\* governance.FORBIDDEN_PHRASES
FORBIDDEN_PHRASES ==
    {<<"<", "s", "y", "s", "t", "e", "m", ">">>,
     <<"i", "g", "n", "o", "r", "e", " ", "p", "r", "e", "v", "i", "o", "u", "s">>,
     <<"d", "i", "s", "r", "e", "g", "a", "r", "d", " ", "p", "r", "i", "o", "r">>,
     <<"y", "o", "u", " ", "a", "r", "e", " ", "c", "h", "a", "t", "g", "p", "t">>,
     <<"o", "v", "e", "r", "r", "i", "d", "e", " ", "i", "n", "s", "t", "r", "u", "c", "t", "i", "o", "n", "s">>,
     <<"a", "c", "t", " ", "a", "s", " ", "s", "y", "s", "t", "e", "m">>,
     <<"r", "e", "s", "e", "t", " ", "r", "o", "l", "e">>}

\* A Python set: a value json.dumps cannot serialize.
PySet(elems) == [k |-> "set", v |-> elems]

\* input_data.get("value") of a call that passes none
NoValue == [k |-> "none", v |-> <<>>]

\* json.dumps succeeds: strings and ints, and lists of such; a set raises
RECURSIVE Serializable(_)
Serializable(x) ==
    IF x.k = "list" THEN \A i \in DOMAIN x.v : Serializable(x.v[i])
    ELSE x.k \in {"str", "int"}

\* json.dumps of a string with ensure_ascii=False: quoted, with the quote
\* and the backslash escaped
dumps_str(chars) ==
    <<"\"">>
        \o Flatten([i \in DOMAIN chars |->
                        IF chars[i] \in {"\"", "\\"} THEN <<"\\", chars[i]>> ELSE <<chars[i]>>])
        \o <<"\"">>

\* json.dumps(payload, ensure_ascii=False, separators=(item_sep, ...)) of a
\* serializable payload of strings and lists
RECURSIVE dumps(_, _)
dumps(x, item_sep) ==
    IF x.k = "list"
    THEN <<"[">>
             \o Flatten([i \in DOMAIN x.v |->
                             (IF i = 1 THEN <<>> ELSE item_sep) \o dumps(x.v[i], item_sep)])
             \o <<"]">>
    ELSE dumps_str(x.v)

\* str(payload) of a set of strings with one element
py_str(x) ==
    <<"{", "'">> \o (CHOOSE e \in x.v : TRUE).v \o <<"'", "}">>

\* `phrase in text`
Contains(text, phrase) ==
    \E i \in 1..(Len(text) - Len(phrase) + 1) : SubSeq(text, i, i + Len(phrase) - 1) = phrase

\* governance.json_serializable
json_serializable(payload) ==
    IF Serializable(payload) THEN [ok |-> TRUE, message |-> None]
    ELSE [ok |-> FALSE, message |-> "not_serializable"]

\* governance.sanitize_ok, the text that is scanned: a string as it is, any
\* other payload as json.dumps writes it, or str() of it when that raises
sanitize_text(payload) ==
    IF payload.k = "str" THEN payload.v
    ELSE IF Serializable(payload) THEN dumps(payload, <<",", " ">>)
    ELSE py_str(payload)

\* governance.sanitize_ok
sanitize_ok(payload) ==
    IF \E p \in FORBIDDEN_PHRASES : Contains(lower(sanitize_text(payload)), p)
    THEN [ok |-> FALSE, message |-> "forbidden_phrase"]
    ELSE [ok |-> TRUE, message |-> None]

\* token_estimator.approx_tokens_from_text: max(1, bytes // 4); the modelled
\* characters are one byte each
approx_tokens_from_text(text) == IF Len(text) \div 4 >= 1 THEN Len(text) \div 4 ELSE 1

\* token_estimator.approx_tokens_from_json
approx_tokens_from_json(obj) ==
    approx_tokens_from_text(IF Serializable(obj) THEN dumps(obj, <<",">>) ELSE py_str(obj))

\* governance.check_token_budget: `limit or POLICY[...]`, so no limit and a
\* limit of 0 both give the policy's limit
check_token_budget(payload, limit) ==
    IF approx_tokens_from_json(payload)
           > (IF limit = 0 THEN max_tokens_workspace_inject ELSE limit)
    THEN [ok |-> FALSE, message |-> "over_budget"]
    ELSE [ok |-> TRUE, message |-> None]

\* ws["memory"][key] = entry, and ws["injections_once"][key] = digest
WithEntry(map, key, entry) ==
    [k \in DOMAIN map \cup {key} |-> IF k = key THEN entry ELSE map[k]]

\* str.lower() of the artifact names the model uses
lower_name(name) == IF name = "N" THEN "n" ELSE name

\* LoadArtifactWorkspaceMemoryTool._by_name: the exact name first, then the
\* newest artifact whose name matches without regard to case (0: none)
by_name(arts, name) ==
    IF IndexOfName(arts, name) # 0 THEN IndexOfName(arts, name)
    ELSE IF \E i \in DOMAIN arts : lower_name(arts[i].name) = lower_name(name)
    THEN CHOOSE i \in DOMAIN arts :
             /\ lower_name(arts[i].name) = lower_name(name)
             /\ \A j \in DOMAIN arts :
                    lower_name(arts[j].name) = lower_name(name)
                        => \/ arts[j].created_at < arts[i].created_at
                           \/ (arts[j].created_at = arts[i].created_at /\ i <= j)
    ELSE 0

\* the pkg the tool works in: the active package, else the one named
memory_package(s, package_name) ==
    IF s.active_package # None THEN s.active_package
    ELSE IF package_name # None /\ package_name \in DOMAIN s.packages THEN package_name
    ELSE None

\* A mutant of save_to_memory: the entry is written before the budget is checked.
save_to_memory_eager(s, pkg, ws_key, value, type_, origin, max_tokens) ==
    IF ~json_serializable(value).ok
    THEN [st |-> s, res |-> Message(json_serializable(value).message)]
    ELSE IF ~sanitize_ok(value).ok
    THEN [st |-> s, res |-> Message(sanitize_ok(value).message)]
    ELSE IF ~check_token_budget(value, max_tokens).ok
    THEN [st |-> [load_ws(s, pkg).st
                     EXCEPT !.packages[pkg].artifacts[load_ws(s, pkg).idx].content.memory =
                                WithEntry(@, ws_key,
                                          [type |-> type_, value |-> value, updated_at |-> now,
                                           origin_artifact |-> origin])],
          res |-> Message(check_token_budget(value, max_tokens).message)]
    ELSE [st |-> [load_ws(s, pkg).st
                     EXCEPT !.packages[pkg].artifacts[load_ws(s, pkg).idx].content.memory =
                                WithEntry(@, ws_key,
                                          [type |-> type_, value |-> value, updated_at |-> now,
                                           origin_artifact |-> origin]),
                            !.packages[pkg].artifacts[load_ws(s, pkg).idx].content.injections_once =
                                WithEntry(@, ws_key,
                                          SubSeq(dumps(value, <<",", " ">>), 1,
                                                 IF Len(dumps(value, <<",", " ">>)) < 64
                                                 THEN Len(dumps(value, <<",", " ">>)) ELSE 64))],
          res |-> Message("loaded")]

\* LoadArtifactWorkspaceMemoryTool.run from the governance checks on: a check
\* that fails returns its message; else the entry and its one-shot digest
\* (the first 64 characters of the JSON text) are written and saved.
save_to_memory(s, pkg, ws_key, value, type_, origin, max_tokens) ==
    IF ~json_serializable(value).ok
    THEN [st |-> s, res |-> Message(json_serializable(value).message)]
    ELSE IF ~sanitize_ok(value).ok
    THEN [st |-> s, res |-> Message(sanitize_ok(value).message)]
    ELSE IF ~check_token_budget(value, max_tokens).ok
    THEN [st |-> s, res |-> Message(check_token_budget(value, max_tokens).message)]
    ELSE [st |-> [load_ws(s, pkg).st
                     EXCEPT !.packages[pkg].artifacts[load_ws(s, pkg).idx].content.memory =
                                WithEntry(@, ws_key,
                                          [type |-> type_, value |-> value, updated_at |-> now,
                                           origin_artifact |-> origin]),
                            !.packages[pkg].artifacts[load_ws(s, pkg).idx].content.injections_once =
                                WithEntry(@, ws_key,
                                          SubSeq(dumps(value, <<",", " ">>), 1,
                                                 IF Len(dumps(value, <<",", " ">>)) < 64
                                                 THEN Len(dumps(value, <<",", " ">>)) ELSE 64))],
          res |-> Message("loaded")]

\* LoadArtifactWorkspaceMemoryTool.run with the artifact it looked up (_extract
\* gives its content, its name or "artifact", its type or "value")
load_found(s, pkg, input, art) ==
    save_to_memory(s, pkg,
                   IF input.new_name # NoName THEN input.new_name
                   ELSE IF art.name # NoName THEN art.name ELSE "artifact",
                   art.content.body,
                   IF input.type # None THEN input.type ELSE art.type,
                   IF art.name # NoName THEN art.name ELSE "artifact",
                   input.max_tokens)

\* LoadArtifactWorkspaceMemoryTool.run in the package it works in; ws_key is
\* new_name or origin_name, stripped (the modelled names have no blanks
\* around them)
load_in_package(s, pkg, input) ==
    IF input.value # NoValue
    THEN save_to_memory(s, pkg,
                        IF input.new_name # NoName THEN input.new_name
                        ELSE IF input.artifact_name # NoName THEN input.artifact_name
                        ELSE "value",
                        input.value,
                        IF input.type # None THEN input.type ELSE "value",
                        IF input.artifact_name # NoName THEN input.artifact_name
                        ELSE IF input.new_name # NoName THEN input.new_name ELSE "value",
                        input.max_tokens)
    ELSE IF input.artifact_name # NoName
    THEN IF by_name(ArtifactsOf(s, pkg), input.artifact_name) = 0
         THEN [st |-> s, res |-> Message("artifact_not_found")]
         ELSE load_found(s, pkg, input,
                         ArtifactsOf(s, pkg)[by_name(ArtifactsOf(s, pkg), input.artifact_name)])
    ELSE IF input.recent_type # None
    THEN IF get_latest_by_type(s, pkg, input.recent_type) = 0
         THEN [st |-> s, res |-> Message("no_artifact_of_type")]
         ELSE load_found(s, pkg, input,
                         ArtifactsOf(s, pkg)[get_latest_by_type(s, pkg, input.recent_type)])
    ELSE [st |-> s, res |-> Message("provide_input")]

\* LoadArtifactWorkspaceMemoryTool.run
load_artifact_into_workspace_memory(s, input, package_name) ==
    IF memory_package(s, package_name) = None
    THEN [st |-> s, res |-> Message("no_active_package")]
    ELSE load_in_package(s, memory_package(s, package_name), input)

\* SessionManager._attach_items: every item is snapshotted into the
\* session's attachments and into ws["memory"] under its name (or attach_<n>)
RECURSIVE attach_items(_, _, _, _)
attach_items(w, pkg, sess, items) ==
    IF items = <<>> THEN [st |-> w.st, sess |-> sess]
    ELSE attach_items(
             [st |-> [w.st EXCEPT !.packages[pkg].artifacts[w.idx].content.memory =
                                      WithEntry(@, IF items[1].name # NoName THEN items[1].name
                                                   ELSE "attach_"
                                                            \o ToString(Cardinality(DOMAIN sess.attachments) + 1),
                                                [type |-> items[1].type,
                                                 value |-> items[1].content.body,
                                                 updated_at |-> now,
                                                 origin_artifact |-> items[1].name])],
              idx |-> w.idx],
             pkg,
             [sess EXCEPT !.attachments =
                              WithEntry(@, IF items[1].name # NoName THEN items[1].name
                                           ELSE "attach_"
                                                    \o ToString(Cardinality(DOMAIN sess.attachments) + 1),
                                        [type |-> items[1].type, origin |-> items[1].name,
                                         value |-> items[1].content.body])],
             Tail(items))

\* SessionManager.start, after the session was stored and made pending: the
\* attachments are snapshotted and the session stored again
start_attached(s, pkg, sess, attachments) ==
    IF attachments = <<>> THEN s
    ELSE store(attach_items(load_ws(s, pkg), pkg, sess, attachments).st, pkg,
               attach_items(load_ws(s, pkg), pkg, sess, attachments).sess)

\* SessionManager.start with attachments
start_with(s, pkg, prompt_name, attachments) ==
    start_attached(start(s, pkg, prompt_name), pkg,
                   Session(s.uuid.sid, prompt_name, FALSE), attachments)

\* the values callers store and load
OKTEXT == <<"o", "k">>

RESETROLE == <<"R", "e", "s", "e", "t", " ", "r", "o", "l", "e">>

LONGTEXT == <<"a", "b", "c", "d", "e", "f", "g", "h">>

MemoryValues ==
    {Str(OKTEXT), Str(RESETROLE), Str(LONGTEXT), List(<<Str(OKTEXT)>>), PySet({Str(OKTEXT)})}

\* input_data of the load tool with nothing in it
MemoryInput ==
    [artifact_name |-> NoName, recent_type |-> None, new_name |-> NoName, type |-> None,
     value |-> NoValue, max_tokens |-> 0]

\* the input_data the host passes: a direct value, with and without a token
\* limit of 1; a name in another case; a type and a workspace key; nothing
MemoryInputs ==
    {[MemoryInput EXCEPT !.value = v, !.max_tokens = m] : v \in MemoryValues, m \in {0, 1}}
        \cup {[MemoryInput EXCEPT !.artifact_name = "n", !.max_tokens = m] : m \in {0, 1}}
        \cup {[MemoryInput EXCEPT !.recent_type = "table", !.new_name = "K"], MemoryInput}

NoMemoryCall == [op |-> "init", res |-> Result, input |-> MemoryInput]

MemoryInit ==
    /\ packages = <<>>
    /\ active_package = None
    /\ contract_mode = "DEFAULT"
    /\ session_type = None
    /\ history = <<>>
    /\ last_announced = [p \in PkgNames |-> NoId]
    /\ session_autoswitch = "on"
    /\ uuid = [art |-> 1, sid |-> 1]
    /\ now = 0
    /\ tools = <<>>
    /\ script_session = NoSession
    /\ last = NoMemoryCall

\* the artifacts of a package that are not its workspace record
UserArtifacts(s, pkg) ==
    SelectSeq(ArtifactsOf(s, pkg), LAMBDA a : a.type # WORKSPACE_ARTIFACT_TYPE)

MemoryCreatePackage ==
    \E name \in PkgNames :
        /\ name \notin DOMAIN packages
        /\ Commit(create_package(Cur, name))
        /\ last' = [NoMemoryCall EXCEPT !.op = "create_package"]
        /\ UNCHANGED <<session_autoswitch, now>>

MemoryUsePackage ==
    \E name \in DOMAIN packages :
        /\ active_package # name
        /\ Commit([Cur EXCEPT !.active_package = name])
        /\ last' = [NoMemoryCall EXCEPT !.op = "use_package"]
        /\ UNCHANGED <<session_autoswitch, now>>

\* ArtifactRegistry.add_artifact: a table with one of the values as content
MemoryAddArtifact ==
    \E pkg \in DOMAIN packages, value \in MemoryValues :
        /\ Len(UserArtifacts(Cur, pkg)) < MaxMemoryArtifacts
        /\ Commit(add_artifact(Cur, pkg, "table", [PlainContent("data") EXCEPT !.body = value],
                               "N"))
        /\ last' = [NoMemoryCall EXCEPT !.op = "add_artifact"]
        /\ UNCHANGED <<session_autoswitch, now>>

\* LoadArtifactWorkspaceMemoryTool.run called for the package
MemoryLoad ==
    \E input \in MemoryInputs, package_name \in {None} \cup PkgNames :
        /\ Commit(load_artifact_into_workspace_memory(Cur, input, package_name).st)
        /\ last' = [NoMemoryCall EXCEPT
                        !.op = "load",
                        !.input = input,
                        !.res = load_artifact_into_workspace_memory(Cur, input, package_name).res]
        /\ UNCHANGED <<session_autoswitch, now>>

\* SessionManager.start with the package's artifacts as attachments, as
\* ExecutePromptForSession.run passes them
MemoryStartSession ==
    \E pkg \in DOMAIN packages :
        /\ uuid.sid <= MaxMemorySessions
        /\ Commit(start_with(Cur, pkg, "N", UserArtifacts(Cur, pkg)))
        /\ last' = [NoMemoryCall EXCEPT !.op = "start"]
        /\ UNCHANGED <<session_autoswitch, now>>

MemoryNext ==
    \/ MemoryCreatePackage
    \/ MemoryUsePackage
    \/ MemoryAddArtifact
    \/ MemoryLoad
    \/ MemoryStartSession

SpecMemory == MemoryInit /\ [][MemoryNext]_vars

\* ------------------------------------------------- runs scoped to a package
\* two packages, so that a Run can name a package that is not the active one
ScopedPackages == {"A", "B"}

ScopedInit ==
    /\ packages = <<>>
    /\ active_package = None
    /\ contract_mode = "DEFAULT"
    /\ session_type = None
    /\ history = <<>>
    /\ last_announced = [p \in ScopedPackages |-> NoId]
    /\ session_autoswitch \in {"off", "ask", "on"}
    /\ uuid = [art |-> 1, sid |-> 1]
    /\ now = 0
    /\ tools = <<>>
    /\ script_session = NoSession
    /\ last = NoCall

\* ArtifactRegistry.create_package
ScopedCreatePackage ==
    \E name \in ScopedPackages :
        /\ name \notin DOMAIN packages
        /\ Commit(create_package(Cur, name))
        /\ last' = [NoCall EXCEPT !.op = "create_package", !.package = name]
        /\ UNCHANGED <<session_autoswitch, now>>

\* ArtifactRegistry.use_package
ScopedUsePackage ==
    \E name \in DOMAIN packages :
        /\ active_package # name
        /\ Commit([Cur EXCEPT !.active_package = name])
        /\ last' = [NoCall EXCEPT !.op = "use_package", !.package = name]
        /\ UNCHANGED <<session_autoswitch, now>>

\* AgentCore.run of a tool whose result asks for the SESSION contract, with
\* and without an explicit package
ScopedRun ==
    \E package_name \in {None} \cup ScopedPackages :
        /\ Len(history) < MaxScopedHistory
        /\ Commit(run(Cur, "custom_tool", package_name, Input, FALSE,
                      [Env EXCEPT !.switch = "SESSION", !.stype = "review"]).st)
        /\ last' = Call("run", "custom_tool", Scope(package_name), <<>>,
                        run(Cur, "custom_tool", package_name, Input, FALSE,
                            [Env EXCEPT !.switch = "SESSION", !.stype = "review"]))
        /\ UNCHANGED <<session_autoswitch, now>>

\* AgentCore.handle_user_message: the answer to a pending switch
ScopedMessage ==
    \E text \in {UYES, CANCEL} :
        /\ Len(handle_user_message(Cur, text, Env).st.history) <= MaxScopedHistory
        /\ Commit(handle_user_message(Cur, text, Env).st)
        /\ last' = Call("user_message", None, Scope(None), text,
                        handle_user_message(Cur, text, Env))
        /\ UNCHANGED <<session_autoswitch, now>>

ScopedNext ==
    \/ ScopedCreatePackage
    \/ ScopedUsePackage
    \/ ScopedRun
    \/ ScopedMessage

SpecScoped == ScopedInit /\ [][ScopedNext]_vars

\* ------------------------------------------------------------- properties
\* the tools spec section 4.4 step 1 lists as left enabled in a session
AllowedInSession == {"create_artifact", "llm_chat", "execute_prompt_for_session"}

\* text.strip().lower() of the message just handled
LastWord == lower(strip(last.text))

\* C1: Run never propagates an exception raised inside the invoked Tool: when
\* Tool.Run raises, Run returns a Result to its caller.
C1_RunIsolatesToolFailure ==
    (last.op = "run" /\ last.tool_raised) => last.outcome = "returned"

\* C2: while contractMode is SESSION no Tool outside the allow-list is ever
\* invoked, by any path; a Run request for such a tool is refused at once, no
\* Tool is invoked and the state (history, artifacts, contractMode) is as before.
C2_SessionAllowList ==
    /\ \A i \in DOMAIN last.invoked :
           last.invoked[i].mode = "SESSION" => last.invoked[i].tool \in AllowedInSession
    /\ (last.op = "run" /\ last.pre_mode = "SESSION" /\ last.tool \notin AllowedInSession)
           => /\ last.outcome = "refused"
              /\ last.invoked = <<>>
              /\ last.unchanged
              /\ contract_mode = "SESSION"

\* C2, its case: a rename was asked for during a session and refused.
C2_Witness ==
    /\ last.op = "run"
    /\ last.pre_mode = "SESSION"
    /\ last.tool = "name_artifact"
    /\ last.outcome = "refused"

\* C3: no two artifacts of a package carry the same non-empty name, after any
\* sequence of AddArtifact and Rename operations.
C3_NamesUnique ==
    \A p \in DOMAIN packages :
        \A i, j \in DOMAIN packages[p].artifacts :
            (i # j /\ packages[p].artifacts[i].name # NoName)
                => packages[p].artifacts[i].name # packages[p].artifacts[j].name

\* C4: AddArtifact stores a requested name N unchanged when no artifact of the
\* package uses it, and otherwise "N (n)" for the smallest n >= 2 such that
\* "N (n)" is not in use; the third N in a row is stored as "N (3)".
C4_UniqueNameRule ==
    (last.op = "add_artifact" /\ last.requested # NoName) =>
        LET arts == packages[last.package].artifacts
            prior == ExistingNames(SubSeq(arts, 1, Len(arts) - 1))
        IN  IF last.requested \notin prior
            THEN last.stored_name = last.requested
            ELSE \E n \in 2..(Len(arts) + 1) :
                     /\ last.stored_name = Suffixed(last.requested, n)
                     /\ last.stored_name \notin prior
                     /\ \A m \in 2..(n - 1) : Suffixed(last.requested, m) \in prior

\* C4, its case: the package held "N" and "N (2)", and N was added again.
C4_Witness ==
    /\ last.op = "add_artifact"
    /\ last.requested = "N"
    /\ last.stored_name = "N (3)"
    /\ {"N", "N (2)"} \subseteq
           ExistingNames(SubSeq(packages[last.package].artifacts, 1,
                                Len(packages[last.package].artifacts) - 1))

\* C5: with sessionAutoswitch = ask and contractMode = DEFAULT, a Run in a
\* package whose Tool result carries switchContract = SESSION and a sessionType
\* returns, leaves contractMode = DEFAULT and records the pending switch
\* {mode: SESSION, sessionType} in that package's Workspace.
C5_AskRecordsPending ==
    (/\ last.op = "run"
     /\ session_autoswitch = "ask"
     /\ last.pre_mode = "DEFAULT"
     /\ last.package # None
     /\ last.res_switch = "SESSION"
     /\ last.res_stype # None)
        => /\ last.outcome = "returned"
           /\ contract_mode = "DEFAULT"
           /\ PendingIn(Cur, last.package) =
                  {[mode |-> "SESSION", session_type |-> last.res_stype]}

\* C6: when a pending contract switch is recorded, a user message that is yes,
\* y, start or start session (trimmed, in any case) sets contractMode = SESSION
\* and sessionType to the recorded one, clears the record and invokes no Tool.
C6_YesCommitsSwitch ==
    (/\ last.op = "user_message"
     /\ last.pre_pending # {}
     /\ LastWord \in {YES3, YES1, START, STARTSESSION})
        => /\ last.outcome = "returned"
           /\ contract_mode = "SESSION"
           /\ \E p \in last.pre_pending : session_type = p.session_type
           /\ PendingIn(Cur, active_package) = {}
           /\ last.invoked = <<>>

\* C6, its case: " Yes" was typed while a switch was pending.
C6_Witness ==
    /\ last.op = "user_message"
    /\ last.text = UYES
    /\ last.pre_pending # {}
    /\ last.pre_mode = "DEFAULT"
    /\ contract_mode = "SESSION"

\* C7: when a pending contract switch is recorded, a user message that is no,
\* n or cancel discards the record and the orchestrator is in DEFAULT
\* afterwards, in every reachable state in which a pending switch exists.
C7_NoKeepsDefault ==
    (/\ last.op = "user_message"
     /\ last.pre_pending # {}
     /\ LastWord \in {NO2, NO1, CANCEL})
        => /\ PendingIn(Cur, active_package) = {}
           /\ contract_mode = "DEFAULT"

\* C8: with sessionAutoswitch = on, a Run whose Tool result carries
\* switchContract = SESSION returns with contractMode = SESSION, sessionType
\* the result's sessionType, and no pending switch recorded.
C8_OnSwitchesAtOnce ==
    (last.op = "run" /\ session_autoswitch = "on" /\ last.res_switch = "SESSION")
        => /\ last.outcome = "returned"
           /\ contract_mode = "SESSION"
           /\ last.res_stype # None => session_type = last.res_stype
           /\ PendingIn(Cur, last.package) = {}
           /\ PendingIn(Cur, active_package) = {}

\* C8, its case: a tool asked for a "review" session from DEFAULT.
C8_Witness ==
    /\ last.op = "run"
    /\ session_autoswitch = "on"
    /\ last.pre_mode = "DEFAULT"
    /\ last.res_switch = "SESSION"
    /\ last.res_stype = "review"
    /\ session_type = "review"

\* C9: with sessionAutoswitch = off, a Tool result carrying switchContract =
\* SESSION is ignored: contractMode, sessionType and the Workspace's pending
\* switch record are after the Run what they were before it.
C9_OffIgnoresSwitch ==
    (last.op = "run" /\ session_autoswitch = "off" /\ last.res_switch = "SESSION")
        => /\ last.outcome = "returned"
           /\ contract_mode = last.pre_mode
           /\ session_type = last.pre_stype
           /\ PendingIn(Cur, last.package) = last.pre_pending
           /\ PendingIn(Cur, active_package) = {}

\* C9, its case: the session kickoff tool ran with the switch turned off.
C9_Witness ==
    /\ last.op = "run"
    /\ session_autoswitch = "off"
    /\ last.tool = "execute_prompt_for_session"
    /\ last.res_switch = "SESSION"
    /\ contract_mode = "DEFAULT"

\* C10: a user message "cancel" or "abort" handled while contractMode = SESSION
\* and a Session is pending removes that Session from the Workspace, clears
\* pendingSessionSid, creates no Artifact and leaves contractMode = DEFAULT.
C10_CancelEndsSession ==
    (/\ last.op = "user_message"
     /\ last.pre_mode = "SESSION"
     /\ last.pre_sid # NoId
     /\ LastWord \in {CANCEL, ABORT})
        => /\ \A x \in SessionsIn(Cur, active_package) : x.sid # last.pre_sid
           /\ PendingSidIn(Cur, active_package) = NoId
           /\ uuid.art = last.pre_arts
           /\ contract_mode = "DEFAULT"

\* the artifacts of the active package made by the call just handled
MadeByLast ==
    IF active_package = None \/ active_package \notin DOMAIN packages THEN {}
    ELSE {a \in {ArtifactsOf(Cur, active_package)[i] :
                     i \in DOMAIN ArtifactsOf(Cur, active_package)} :
              a.id >= last.pre_arts}

\* the message just handled was a finish word
LastIsFinish == last.op = "user_message" /\ LastWord \in {FINISHSESSION, FINISH, CONCLUDE, UFINISH}

\* C11 (as amended): a finish message handled while contractMode = SESSION and
\* a Session is pending creates one Artifact of the session spec's artifact
\* type in the package, removes the Session from the Workspace sessions map,
\* clears pendingSessionSid, and leaves contractMode = DEFAULT.
C11_FinishInSession ==
    (LastIsFinish /\ last.pre_mode = "SESSION" /\ last.pre_sid # NoId)
        => /\ last.outcome = "returned"
           /\ Cardinality({a \in MadeByLast : a.type = last.pre_art_type}) = 1
           /\ \A x \in SessionsIn(Cur, active_package) : x.sid # last.pre_sid
           /\ PendingSidIn(Cur, active_package) = NoId
           /\ contract_mode = "DEFAULT"

\* C11, its case: a session was concluded with a summary the LLM wrote.
C11_Witness ==
    /\ LastIsFinish
    /\ last.pre_mode = "SESSION"
    /\ last.pre_sid # NoId
    /\ last.reply = "text"
    /\ \E a \in MadeByLast : a.type = "session_summary" /\ a.content.body = "text"
    /\ contract_mode = "DEFAULT"

\* C11 as stated: a finish message handled while a Session is pending, whatever
\* the contract mode, creates one Artifact of the session spec's artifact
\* type, removes the Session, clears pendingSessionSid and leaves DEFAULT.
C11_FinishWhilePending ==
    (LastIsFinish /\ last.pre_sid # NoId)
        => /\ Cardinality({a \in MadeByLast : a.type = last.pre_art_type}) = 1
           /\ \A x \in SessionsIn(Cur, active_package) : x.sid # last.pre_sid
           /\ PendingSidIn(Cur, active_package) = NoId
           /\ contract_mode = "DEFAULT"

\* C12: conclusion never fails because of the summarizer: whether it returns
\* text, returns empty text or raises, Finish creates the summary Artifact,
\* with the fallback summary when the summarizer raised or returned nothing,
\* removes the Session and returns to DEFAULT.
C12_FinishSurvivesSummarizer ==
    (LastIsFinish /\ last.pre_mode = "SESSION" /\ last.pre_sid # NoId)
        => /\ last.outcome = "returned"
           /\ \E a \in MadeByLast :
                  /\ a.type = "session_summary"
                  /\ (last.tool_raised \/ last.reply = "empty")
                         => a.content.body = "fallback_summary"
           /\ \A x \in SessionsIn(Cur, active_package) : x.sid # last.pre_sid
           /\ contract_mode = "DEFAULT"

\* C13: every Session stored in a package's Workspace sessions map is the one
\* named by pendingSessionSid, also after a second session is started while
\* one is pending, and after Finish or Cancel the map holds no Session.
C13_OnePendingSession ==
    /\ \A p \in DOMAIN packages :
           \A x \in SessionsIn(Cur, p) : x.sid = PendingSidIn(Cur, p)
    /\ (/\ last.op = "user_message"
        /\ last.pre_mode = "SESSION"
        /\ last.pre_sid # NoId
        /\ LastWord \in {FINISHSESSION, FINISH, CONCLUDE, UFINISH, CANCEL, ABORT})
           => SessionsIn(Cur, active_package) = {}

\* the workspace records of a package: its artifacts of type "workspace"
WorkspaceRecords(p) ==
    {i \in DOMAIN ArtifactsOf(Cur, p) :
         ArtifactsOf(Cur, p)[i].type = WORKSPACE_ARTIFACT_TYPE}

\* C14: each Package holds at most one Workspace record (Artifact of type
\* "workspace"): the first access creates it and every later access, after
\* any sequence of AddArtifact, Rename and Run, reuses it instead of creating
\* another.
C14_OneWorkspaceRecord ==
    /\ \A p \in DOMAIN packages : Cardinality(WorkspaceRecords(p)) <= 1
    /\ (last.op = "load_ws" /\ ~last.unchanged)
           => Cardinality(WorkspaceRecords(last.package)) = 1

\* the types a registered tool declares as inputs and as outputs
DeclaredIn(tool_name) ==
    UNION {{tools[i].inputs[j] : j \in DOMAIN tools[i].inputs} :
               i \in {k \in DOMAIN tools : tools[k].name = tool_name}}

DeclaredOut(tool_name) ==
    UNION {{tools[i].outputs[j] : j \in DOMAIN tools[i].outputs} :
               i \in {k \in DOMAIN tools : tools[k].name = tool_name}}

\* t1..tk is a valid chain from start to goal: t1 declares an input of type
\* start, each t(i+1) declares an input of a type t(i) declares as output, and
\* tk declares an output of type goal
ValidChain(chain, start_type, goal_type) ==
    /\ chain # <<>>
    /\ start_type \in DeclaredIn(chain[1])
    /\ \A i \in 1..(Len(chain) - 1) :
           DeclaredOut(chain[i]) \cap DeclaredIn(chain[i + 1]) # {}
    /\ goal_type \in DeclaredOut(chain[Len(chain)])

\* the valid chains of registered tools without more tools than are
\* registered (a chain that repeats a tool has a shorter one inside it)
Chains(start_type, goal_type) ==
    {chain \in UNION {[1..n -> {tools[i].name : i \in DOMAIN tools}] : n \in 1..Len(tools)} :
         ValidChain(chain, start_type, goal_type)}

\* C15: PlanPath(start, goal) returns the empty plan exactly when start = goal
\* or no chain of registered tools connects start to goal; otherwise it
\* returns a non-empty plan that is a valid chain from start to goal.
C15_PlanIsValidChain ==
    last.op = "plan_path"
        => /\ (last.plan = <<>>) <=>
                  (last.start = last.goal \/ Chains(last.start, last.goal) = {})
           /\ last.plan # <<>> => ValidChain(last.plan, last.start, last.goal)

\* C15, its case: the single tool from csv to hierarchy is the plan.
C15_Witness ==
    /\ last.op = "plan_path"
    /\ Len(tools) = 1
    /\ tools[1].inputs = <<"csv">>
    /\ tools[1].outputs = <<"hierarchy">>
    /\ last.start = "csv"
    /\ last.goal = "hierarchy"
    /\ last.plan = <<"T1">>

\* C16: for every registry, cyclic type graphs included, and every start #
\* goal with the goal reachable, PlanPath ends with a plan that has the
\* minimum number of tools among all valid chains from start to goal.
C16_PlanIsShortest ==
    (/\ last.op = "plan_path"
     /\ last.start # last.goal
     /\ Chains(last.start, last.goal) # {})
        => /\ last.plan # <<>>
           /\ \A chain \in Chains(last.start, last.goal) : Len(last.plan) <= Len(chain)

\* C16, its case: the types form a cycle through the start, a longer valid
\* chain exists, and the plan is the shorter one.
C16_Witness ==
    /\ last.op = "plan_path"
    /\ last.start # last.goal
    /\ Chains(last.start, last.start) # {}
    /\ Len(last.plan) = 2
    /\ \E chain \in Chains(last.start, last.goal) : Len(chain) = 3

\* C17: RecordAndAdvance called with the answer "notanint" on a fresh session
\* whose first step has type int, before any Advance, returns a non-empty
\* error and leaves answers empty.
C17_FreshSessionRejects ==
    (/\ last.op = "record"
     /\ last.pre.step = 0
     /\ last.pre.answers = <<>>
     /\ last.pre.steps[1].type = TINT
     /\ last.answer = NOTANINT)
        => /\ last.error # None
           /\ script_session.answers = <<>>

\* C18: whenever RecordAndAdvance returns an error (the answer cannot be
\* coerced to the type of the step before the cursor, or it violates the
\* enum or regex rule for that key), the session's step and answers are
\* exactly as before the call.
C18_ErrorLeavesSession ==
    (last.op = "record" /\ last.error # None)
        => /\ script_session.step = last.pre.step
           /\ script_session.answers = last.pre.answers
           /\ script_session = last.pre

\* C18, its case: with an answer already recorded, the second step's answer
\* is outside the enum of its key and is refused.
C18_Witness ==
    /\ last.op = "record"
    /\ last.error = "not_in_enum"
    /\ last.pre.step = 2
    /\ "a" \in DOMAIN last.pre.answers
    /\ script_session.answers = last.pre.answers

\* the answer just recorded is valid for the step before the cursor: it can
\* be coerced to the step's type and meets the rule of the step's key
ValidAnswer ==
    /\ coerce(StepType(last.pre), strip(last.answer)).ok
    /\ StepKey(last.pre) \in DOMAIN last.pre.validate
           => /\ last.pre.validate[StepKey(last.pre)].has_enum
                     => \E e \in last.pre.validate[StepKey(last.pre)].enum :
                            PyEq(coerce(StepType(last.pre), strip(last.answer)).val, e)
              /\ (/\ last.pre.validate[StepKey(last.pre)].regex # None
                  /\ StepType(last.pre) \notin {TINT, TFLOAT, TBOOL, TLIST})
                     => re_match(last.pre.validate[StepKey(last.pre)].regex,
                                 strip(last.answer))

\* C19: with the cursor at step k >= 1 and a valid answer, RecordAndAdvance
\* stores the coerced, typed value under the key of step k-1 ("5" for an int
\* step stores the integer 5), returns no error, changes no other answer and
\* does not move the cursor; only Advance moves it.
C19_RecordStoresTyped ==
    /\ (/\ last.op = "record"
        /\ last.pre.step >= 1
        /\ last.pre.steps[last.pre.step].key # None
        /\ ValidAnswer)
           => /\ last.error = None
              /\ DOMAIN script_session.answers =
                     DOMAIN last.pre.answers \cup {last.pre.steps[last.pre.step].key}
              /\ script_session.answers[last.pre.steps[last.pre.step].key] =
                     coerce(StepType(last.pre), strip(last.answer)).val
              /\ (last.pre.steps[last.pre.step].type = TINT /\ last.answer = FIVE)
                     => script_session.answers[last.pre.steps[last.pre.step].key] =
                            [t |-> "int", v |-> 5]
              /\ \A k \in DOMAIN last.pre.answers :
                     k # last.pre.steps[last.pre.step].key
                         => script_session.answers[k] = last.pre.answers[k]
              /\ script_session.step = last.pre.step
    /\ last.op = "record" => script_session.step = last.pre.step

\* C19, its case: after one Advance the answer "5" to the int step "a" is
\* stored as the integer 5, the cursor still at 1.
C19_Witness ==
    /\ last.op = "record"
    /\ last.pre.step = 1
    /\ last.pre.steps[1].key = "a"
    /\ last.pre.steps[1].type = TINT
    /\ last.answer = FIVE
    /\ last.error = None
    /\ script_session.answers = [k \in {"a"} |-> [t |-> "int", v |-> 5]]
    /\ script_session.step = 1

\* what spec section 4.4 step 4 says of a string: one that is a key of the
\* artifacts map, or the marker "@" followed by a key, becomes that entry's
\* artifactId; every other string stays.
ResolvedString(chars, ws_map) ==
    IF Entries(ws_map, chars) # {}
    THEN (CHOOSE e \in Entries(ws_map, chars) : TRUE).artifact_id
    ELSE IF chars # <<>> /\ Head(chars) = "@" /\ Entries(ws_map, Tail(chars)) # {}
    THEN (CHOOSE e \in Entries(ws_map, Tail(chars)) : TRUE).artifact_id
    ELSE chars

\* the same at any depth of a payload
RECURSIVE Resolved(_, _)
Resolved(x, ws_map) ==
    IF x.k = "dict"
    THEN [k |-> "dict", v |-> [key \in DOMAIN x.v |-> Resolved(x.v[key], ws_map)]]
    ELSE IF x.k = "list"
    THEN [k |-> "list", v |-> [i \in DOMAIN x.v |-> Resolved(x.v[i], ws_map)]]
    ELSE IF x.k = "str" THEN Str(ResolvedString(x.v, ws_map))
    ELSE x

\* C20: name resolution replaces every string at any depth of the input (map
\* value or list element) that equals a key of the Workspace artifacts map,
\* optionally prefixed with the marker "@", by that entry's artifactId, and
\* returns every other string and every non-string value unchanged.
C20_ResolvesNamesOnly ==
    last.op = "resolve" => last.output = Resolved(last.input, last.ws_map)

\* no artifactId of the map is itself (with or without leading "@"s) a
\* logical name of the map
IdsAreNotNames(ws_map) ==
    \A e \in ws_map : Entries(ws_map, lstrip_at(e.artifact_id)) = {}

\* C21 (amended): for every Workspace artifacts map in which no artifactId is
\* also a logical name, and every input, resolving the resolved input again
\* returns it unchanged, so a concrete artifact id passes through as a no-op.
C21_ResolveIdempotent ==
    (last.op = "resolve" /\ IdsAreNotNames(last.ws_map))
        => walk(last.output, last.ws_map) = last.output

\* a name was replaced by its id next to a concrete id, in such a map
C21_Witness ==
    /\ last.op = "resolve"
    /\ IdsAreNotNames(last.ws_map)
    /\ last.input = List(<<Str(ATBOM), Str(ID1)>>)
    /\ last.output = List(<<Str(ID1), Str(ID1)>>)

\* C21 as stated: name resolution is idempotent for every Workspace
\* artifacts map and every input, resolve(resolve(x)) = resolve(x).
C21_ResolveIdempotentAnyMap ==
    last.op = "resolve" => walk(last.output, last.ws_map) = last.output

\* C22: the history is an append-only log in call order: every Run call that
\* invokes a Tool appends exactly one record {tool, package, input, output}
\* at the end of the log, a refused Run appends none, and no operation ever
\* removes or reorders existing records.
C22_HistoryAppendOnly ==
    [][/\ Len(history') >= Len(history)
       /\ SubSeq(history', 1, Len(history)) = history
       /\ (last'.op = "run" /\ last'.outcome = "refused") => history' = history
       /\ (last'.op = "run" /\ last'.invoked # <<>>)
              => /\ Len(history') = Len(history) + 1
                 /\ history'[Len(history')].tool = last'.tool
                 /\ history'[Len(history')].package = last'.package]_vars

\* the artifacts of the scope package of the call `last`, before and after it
ScopeArtifacts == packages[last.package].artifacts

ScopeArtifactsBefore == last.pre.packages[last.package].artifacts

\* C23: memory policy: for a Tool that declares a remember output, a Run whose
\* result reports no id for it raises no exception and leaves the created
\* Artifact's remembered flag unset, and a Run whose result reports an id sets
\* remembered on exactly the Artifact with that id in the scope package.
C23_MemoryPolicy ==
    (last.op = "run" /\ last.tool \in RememberTools /\ last.invoked # <<>>
        /\ last.package # None)
        => /\ last.outcome = "returned"
           /\ \A i \in DOMAIN ScopeArtifacts :
                  ScopeArtifacts[i].remembered =
                      (\/ ScopeArtifacts[i].id = last.tool_res.artifact_ids
                       \/ /\ i \in DOMAIN ScopeArtifactsBefore
                          /\ ScopeArtifactsBefore[i].remembered)

\* the chat tool's turn was marked next to an artifact of the creation tool,
\* which reports no id and is left unmarked
C23_Witness ==
    /\ last.op = "run"
    /\ last.tool = "llm_chat"
    /\ last.package # None
    /\ last.tool_res.artifact_ids # NoId
    /\ \E i \in DOMAIN ScopeArtifacts :
           /\ ScopeArtifacts[i].id = last.tool_res.artifact_ids
           /\ ScopeArtifacts[i].remembered
    /\ \E i \in DOMAIN ScopeArtifacts :
           /\ ScopeArtifacts[i].type = "table"
           /\ ~ScopeArtifacts[i].remembered

\* C24: announcements are one-shot per artifact: over any sequence of Run
\* calls, the announcement computed for a package names any artifact id at
\* most once.
C24_AnnouncedOnce ==
    (last.op = "run" /\ last.ann # NoId) => <<last.package, last.ann>> \notin last.announced

\* a third Run after two announcements for the package, with nothing new
C24_Witness ==
    /\ last.op = "run"
    /\ last.invoked # <<>>
    /\ last.ann = NoId
    /\ Cardinality({x \in last.announced : x[1] = last.package}) = 2

\* C25: Run with no explicit package name while the Registry has no active
\* package fails with NotFound: the Tool is not invoked and no history
\* record is appended.
C25_NoPackageNotFound ==
    (last.op = "run" /\ last.package = None /\ last.outcome # "refused")
        => /\ last.outcome = "raised"
           /\ last.invoked = <<>>
           /\ history = last.pre.history

\* C26: CreatePackage with a name that already exists in the Registry leaves
\* the existing Package, its Artifacts and its pipelines unchanged.
C26_CreateExistingKeeps ==
    (last.op = "create_package" /\ last.package \in DOMAIN last.pre.packages)
        => packages[last.package] = last.pre.packages[last.package]

\* the runs of the replay `last`: the steps run() did not refuse
ReplayedSteps ==
    SelectSeq(Steps(last.pre.history),
              LAMBDA x : last.pre.contract_mode # "SESSION" \/ x.tool \in SessionAllowList)

\* C27: a recorded history is replayable: replaying it re-invokes Run once
\* for each record, in record order, and completes for every history the
\* Dispatcher can have recorded, histories with decision records included.
C27_ReplayCompletes ==
    last.op = "replay"
        => /\ last.outcome = "returned"
           /\ Len(last.invoked) = Len(ReplayedSteps)
           /\ \A i \in DOMAIN last.invoked : last.invoked[i].tool = ReplayedSteps[i].tool

\* C28: history records are immutable once appended: the output stored in the
\* record that Run appends is not changed by the later steps of the same Run
\* (snapshot, memory policy, announcement, contract switch).
C28_RecordOutputFrozen ==
    (last.op = "run" /\ last.invoked # <<>> /\ ~last.tool_raised)
        => history[Len(history)].output = last.tool_res

\* the artifact of the scope package created last, conversations aside
NewestNonConversation ==
    LET cands == {i \in DOMAIN ScopeArtifacts : ScopeArtifacts[i].type # "conversation"}
    IN  ScopeArtifacts[CHOOSE i \in cands : \A j \in cands : j <= i]

\* C29: when the Dispatcher attaches an announcement, it is for the most
\* recently created non-conversation Artifact of the scope package, also when
\* several Artifacts were created within the same timestamp second.
C29_AnnouncesMostRecent ==
    (last.op = "run" /\ last.ann # NoId) => last.ann = NewestNonConversation.id

\* the index of the artifact of the type added to the package last, 0 if none
NewestOfType(arts, type_) ==
    LET cands == {i \in DOMAIN arts : arts[i].type = type_}
    IN  IF cands = {} THEN 0 ELSE CHOOSE i \in cands : \A j \in cands : j <= i

\* C30: GetLatestByType(pkg, T) returns the most recently added Artifact of
\* type T in the package (none when there is none), and a Transform tool that
\* names its output names the Artifact it just created, also when another
\* Artifact of type T was added within the same timestamp second.
C30_LatestIsNewest ==
    /\ \A p \in DOMAIN packages, type_ \in StoreTypes \cup {TransformType} :
           get_latest_by_type(Cur, p, type_) = NewestOfType(packages[p].artifacts, type_)
    /\ last.op = "transform_tool"
           => packages[last.package].artifacts[
                  Len(packages[last.package].artifacts)].name = last.requested

\* the (type, plan) entries one step after an entry: every registered tool
\* declaring the entry's type as an input, first registered first, and every
\* output it declares, in the order declared
StepsFrom(entry) ==
    Flatten([i \in DOMAIN tools |->
                 IF \E j \in DOMAIN tools[i].inputs : tools[i].inputs[j] = entry.type
                 THEN [j \in DOMAIN tools[i].outputs |->
                           [type |-> tools[i].outputs[j],
                            plan |-> Append(entry.plan, tools[i].name)]]
                 ELSE <<>>])

\* the entries one step after the entries of a level, in the level's order
Candidates(level) == Flatten([k \in DOMAIN level |-> StepsFrom(level[k])])

\* of a sequence of entries, the first entry of every type not seen before
RECURSIVE FirstOfEach(_, _)
FirstOfEach(entries, seen) ==
    IF entries = <<>> THEN <<>>
    ELSE IF entries[1].type \in seen THEN FirstOfEach(Tail(entries), seen)
    ELSE <<entries[1]>> \o FirstOfEach(Tail(entries), seen \cup {entries[1].type})

\* the plan of the first entry that reaches the goal, level by level: the
\* first tool to reach a type not seen before fixes the plan to that type
RECURSIVE FirstReached(_, _, _)
FirstReached(level, seen, goal_type) ==
    IF level = <<>> THEN <<>>
    ELSE IF \E k \in DOMAIN Candidates(level) : Candidates(level)[k].type = goal_type
    THEN Candidates(level)[CHOOSE k \in DOMAIN Candidates(level) :
                               /\ Candidates(level)[k].type = goal_type
                               /\ \A m \in 1..(k - 1) :
                                      Candidates(level)[m].type # goal_type].plan
    ELSE FirstReached(FirstOfEach(Candidates(level), seen),
                      seen \cup {Candidates(level)[k].type : k \in DOMAIN Candidates(level)},
                      goal_type)

\* the valid chains from start to goal with as few tools as any
ShortestChains(start_type, goal_type) ==
    {chain \in Chains(start_type, goal_type) :
         \A other \in Chains(start_type, goal_type) : Len(chain) <= Len(other)}

\* C31: when several shortest plans exist, PlanPath returns the one chosen by
\* the order of registration: at each expansion the first-registered tool
\* whose output reaches a type not yet visited, or the goal, fixes the path to
\* that type.
C31_FirstRegisteredWins ==
    (last.op = "plan_path" /\ last.start # last.goal)
        => last.plan = FirstReached(<<[type |-> last.start, plan |-> <<>>]>>,
                                    {last.start}, last.goal)

\* C31, its case: two tools lead from the start to the middle type and two
\* from there to the goal; the plan takes the first registered of each.
C31_Witness ==
    /\ last.op = "plan_path"
    /\ Len(last.plan) = 2
    /\ Cardinality(ShortestChains(last.start, last.goal)) >= 2
    /\ \E chain \in ShortestChains(last.start, last.goal) : chain[2] # last.plan[2]

\* a user message that handle_user_message passes on to _session_tick: the
\* contract is SESSION and the message does not answer a pending switch
ReachesSessionTick(text) ==
    /\ contract_mode = "SESSION"
    /\ active_package # None
    /\ ~(/\ PendingIn(Cur, active_package) # {}
         /\ lower(strip(text)) \in YesWords \cup NoWords)

\* C32: a session tick handled while the contract is SESSION and no stored
\* session is found for the active package falls back to DEFAULT: the contract
\* becomes DEFAULT, no tool is invoked and the sessions map stays as it was.
C32_TickFallsBack ==
    [][(/\ last'.op = "user_message"
        /\ ReachesSessionTick(last'.text)
        /\ load(WsOf(Cur, active_package), PendingSidIn(Cur, active_package)) = {})
           => /\ contract_mode' = "DEFAULT"
              /\ last'.outcome = "returned"
              /\ last'.invoked = <<>>
              /\ SessionsIn(Cur, active_package)' = SessionsIn(Cur, active_package)]_vars

\* C32, its case: a message arrived in SESSION with no session pending and
\* the contract is DEFAULT after it.
C32_Witness ==
    /\ last.op = "user_message"
    /\ last.pre_mode = "SESSION"
    /\ last.pre_sid = NoId
    /\ last.pre_pending = {}
    /\ last.invoked = <<>>
    /\ contract_mode = "DEFAULT"

\* C33: after any sequence of Advance and RecordAndAdvance calls the cursor of
\* a scripted session satisfies 0 <= step <= len(steps), Advance never moves
\* it past len(steps), Finished holds exactly when step >= len(steps), and
\* NextPrompt returns None exactly when Finished holds and otherwise the
\* prompt of the step at the cursor.
C33_CursorWithinSteps ==
    script_session.sid # NoId
        => /\ script_session.step \in 0..Len(script_session.steps)
           /\ last.op = "advance"
                  => script_session.step =
                         IF last.pre.step < Len(last.pre.steps) THEN last.pre.step + 1
                         ELSE last.pre.step
           /\ last.op = "finished"
                  => (last.result <=> script_session.step = Len(script_session.steps))
           /\ last.op = "next_prompt"
                  => /\ (last.prompt = None) <=> finished(script_session)
                     /\ ~finished(script_session)
                            => \/ last.prompt = script_session.steps[script_session.step + 1].ask
                               \/ /\ script_session.steps[script_session.step + 1].ask
                                         \in {None, ""}
                                  /\ last.prompt \notin {None, ""}

\* C33, its case: the cursor was advanced to the end, an Advance at the end
\* left it there, and NextPrompt then found no step left.
C33_Witness ==
    /\ script_session.sid # NoId
    /\ Len(script_session.steps) = 2
    /\ script_session.step = 2
    /\ last.op = "next_prompt"
    /\ last.prompt = None

\* C33, its other case: NextPrompt returns the "ask" of the step at the cursor.
C33_WitnessAsk ==
    /\ script_session.sid # NoId
    /\ script_session.step = 0
    /\ last.op = "next_prompt"
    /\ last.prompt = "ask_a"

\* the stored session the active package's workspace names as pending, if any
PendingSessions == load(WsOf(Cur, active_package), PendingSidIn(Cur, active_package))

\* a user message that is a turn of the pending session: it reaches
\* _session_tick and neither concludes nor cancels the session
IsSessionTurn(text) ==
    /\ ReachesSessionTick(text)
    /\ lower(strip(text)) \notin FinishWords \cup CancelWords

\* C34: in a freeform session the facilitator is never called on the first
\* turn: the tick that finds an empty transcript appends exactly one assistant
\* entry, stores the session and makes no LLM call; the facilitator is called
\* only on ticks that find a transcript that is not empty.
C34_OpeningWithoutLLM ==
    [][(last'.op = "user_message" /\ IsSessionTurn(last'.text))
           => \A sess \in PendingSessions :
                  (sess.llm_mode /\ sess.llm_style = "freeform")
                      => /\ sess.transcript = <<>>
                                => /\ last'.invoked = <<>>
                                   /\ last'.outcome = "returned"
                                   /\ PendingSessions' =
                                          {[sess EXCEPT !.transcript = <<"assistant">>]}
                         /\ last'.invoked # <<>> => sess.transcript # <<>>]_vars

\* C34, its case: the first turn of a freeform session was answered with the
\* opening line and no tool was invoked.
C34_Witness ==
    /\ last.op = "user_message"
    /\ last.pre_mode = "SESSION"
    /\ last.text = HELLO
    /\ last.invoked = <<>>
    /\ contract_mode = "SESSION"
    /\ \E sess \in PendingSessions :
           sess.llm_mode /\ sess.llm_style = "freeform" /\ sess.transcript = <<"assistant">>

\* C34, its other case: the next turn found the opening in the transcript
\* and the facilitator was called.
C34_WitnessReply ==
    /\ last.op = "user_message"
    /\ last.pre_mode = "SESSION"
    /\ last.text = HELLO
    /\ Len(last.invoked) = 1
    /\ last.invoked[1].tool = "llm_chat"
    /\ \E sess \in PendingSessions : Len(sess.transcript) >= 2

\* the value fails one of the three governance checks under the token limit
FailsGovernance(value, limit) ==
    \/ ~json_serializable(value).ok
    \/ ~sanitize_ok(value).ok
    \/ ~check_token_budget(value, limit).ok

\* the messages of the three governance checks
GovernanceErrors == {"not_serializable", "forbidden_phrase", "over_budget"}

\* the value a load call is about: the direct value, else the content of an
\* artifact the package holds under the name or type asked for
LoadsValue(input, value) ==
    \/ input.value = value
    \/ /\ input.value = NoValue
       /\ input.artifact_name # NoName \/ input.recent_type # None
       /\ active_package # None
       /\ UserArtifacts(Cur, active_package) # <<>>
       /\ \A i \in DOMAIN UserArtifacts(Cur, active_package) :
              UserArtifacts(Cur, active_package)[i].content.body = value

\* C35: a governance failure blocks only the memory operation it guards:
\* when the serializability, forbidden-phrase or token-budget check fails for
\* a load into Workspace memory, the call returns an error message and the
\* memory and injections_once maps of every Workspace are as before the call.
C35_FailedLoadWritesNothing ==
    [][last'.op = "load"
           => /\ \A value \in MemoryValues :
                     (/\ active_package # None
                      /\ LoadsValue(last'.input, value)
                      /\ FailsGovernance(value, last'.input.max_tokens))
                         => last'.res.message \in GovernanceErrors
              /\ last'.res.message \in GovernanceErrors
                     => \A p \in DOMAIN packages :
                            /\ WsOf(Cur, p).memory' = WsOf(Cur, p).memory
                            /\ WsOf(Cur, p).injections_once' = WsOf(Cur, p).injections_once]_vars

\* C35, its case: a load was refused for a forbidden phrase while the
\* Workspace memory holds an entry loaded before.
C35_Witness ==
    /\ last.op = "load"
    /\ last.res.message = "forbidden_phrase"
    /\ \E p \in DOMAIN packages : DOMAIN WsOf(Cur, p).memory # {}

\* C35, the other checks: a value that cannot be serialized, and one over
\* the token limit asked for, were refused.
C35_WitnessSerializable ==
    /\ last.op = "load"
    /\ last.res.message = "not_serializable"

C35_WitnessBudget ==
    /\ last.op = "load"
    /\ last.res.message = "over_budget"
    /\ last.input.max_tokens = 1

\* C36: session memory writes go through the governance checks: a value is
\* written into Workspace memory by the start of a session (the snapshots of
\* its attachments) only if it is serializable, has no forbidden phrase and
\* is within the token budget.
C36_StartMemoryGoverned ==
    last.op = "start"
        => \A p \in DOMAIN packages :
               \A key \in DOMAIN WsOf(Cur, p).memory :
                   ~FailsGovernance(WsOf(Cur, p).memory[key].value, 0)

\* the contract after the user message "cancel" was handled twice in a row
AfterTwoCancels ==
    handle_user_message(handle_user_message(Cur, CANCEL, Env).st, CANCEL, Env).st.contract_mode

\* C37: from every reachable state with contractMode = SESSION the user
\* message "cancel", sent repeatedly, leads to contractMode = DEFAULT within
\* at most two messages, whatever pending switch or pending session is
\* recorded.
C37_CancelLeavesSession ==
    contract_mode = "SESSION" => AfterTwoCancels = "DEFAULT"

\* C38: the contract mode and the session record agree between calls:
\* whenever a Run or a user message has returned with contractMode = SESSION,
\* the active package's Workspace has a pendingSessionSid that names a stored
\* Session; and whenever contractMode = DEFAULT with no pending switch, no
\* package has a pending Session left behind.
C38_ModeAgreesWithSession ==
    /\ (/\ last.op \in {"run", "user_message"}
        /\ last.outcome = "returned"
        /\ contract_mode = "SESSION")
           => PendingSessions # {}
    /\ (/\ contract_mode = "DEFAULT"
        /\ \A p \in DOMAIN packages : PendingIn(Cur, p) = {})
           => \A p \in DOMAIN packages : PendingSidIn(Cur, p) = NoId

\* C40: sessionType is set exactly when contractMode = SESSION: contractMode
\* is always DEFAULT or SESSION, sessionType is non-empty in SESSION, and
\* every transition to DEFAULT (finish, cancel, fallback) clears sessionType.
C40_TypeSetInSession ==
    /\ contract_mode \in {"DEFAULT", "SESSION"}
    /\ contract_mode = "SESSION" <=> session_type # None

\* C40, its case: a session of a type was concluded by a user message and the
\* type is cleared with the contract back at DEFAULT.
C40_Witness ==
    /\ last.op = "user_message"
    /\ LastWord \in FinishWords
    /\ last.pre_mode = "SESSION"
    /\ last.pre_stype # None
    /\ last.pre_sid # NoId
    /\ contract_mode = "DEFAULT"
    /\ session_type = None

\* C40, its other cases: a session was cancelled, and a tick that found no
\* session fell back to DEFAULT.
C40_WitnessCancel ==
    /\ last.op = "user_message"
    /\ LastWord = ABORT
    /\ last.pre_mode = "SESSION"
    /\ last.pre_sid # NoId
    /\ contract_mode = "DEFAULT"
    /\ session_type = None

C40_WitnessFallback ==
    /\ last.op = "user_message"
    /\ last.pre_mode = "SESSION"
    /\ last.pre_stype = "review"
    /\ last.pre_sid = NoId
    /\ contract_mode = "DEFAULT"
    /\ session_type = None

\* C39: a Run scoped to an explicit package P affects only P: when P is not
\* the active package (or none is active) and the tool result requests a
\* contract switch under sessionAutoswitch = ask, the pending switch is
\* recorded in P's Workspace, the Run returns, and no other package's
\* Workspace or artifacts change.
C39_ScopedRunAffectsOnlyP ==
    [][\A P \in DOMAIN packages :
           (/\ last'.op = "run"
            /\ session_autoswitch = "ask"
            /\ contract_mode = "DEFAULT"
            /\ last'.package = P
            /\ P # active_package)
               => /\ last'.outcome = "returned"
                  /\ PendingIn(Cur, P)' = {[mode |-> "SESSION", session_type |-> "review"]}
                  /\ \A q \in DOMAIN packages \ {P} : packages'[q] = packages[q]]_vars

====
